---- MODULE Spec2Model ----
\* Model of the Odoo addon stock_picking_cancel_back2draft:
\*   models/stock_move.py      preserve-chain _action_cancel, action_back_to_draft
\*   models/stock_picking.py   action_cancel_back_to_draft, action_open_change_warehouse_wizard
\*   wizard/stock_picking_change_warehouse.py   the change-warehouse wizard
\* The host inventory engine (stock.picking.action_cancel, _compute_state,
\* _do_unreserve) is modelled by the contract the addon relies on.
EXTENDS Integers, FiniteSets, Sequences, TLC

\* ---------------------------------------------------------------- bounds
MaxMoves == 3
MaxPickings == 3
MaxWarehouses == 2

Moves == 1..MaxMoves
Pickings == 1..MaxPickings
Warehouses == 1..MaxWarehouses

\* ---------------------------------------------------------------- state
VARIABLES
  state,             \* stock.move.state
  scrapped,          \* stock.move.scrapped
  propagate_cancel,  \* stock.move.propagate_cancel
  procure_method,    \* stock.move.procure_method
  picked,            \* stock.move.picked
  move_line_ids,     \* TRUE iff the move has reservation lines
  links,             \* stock_move_move_rel: <<orig, dest>> pairs
  picking_id,        \* stock.move.picking_id
  picking_type_id,   \* stock.picking.picking_type_id
  location_id,       \* stock.picking.location_id
  location_dest_id,  \* stock.picking.location_dest_id
  move_wh,           \* per move: picking_type_id, warehouse_id, location_id, location_dest_id
  delivery_steps,    \* stock.warehouse.delivery_steps
  reception_steps,   \* stock.warehouse.reception_steps
  type_code,         \* stock.picking.type.code
  wizard,            \* the stock.picking.change.warehouse record, or NoWizard
  last               \* the call whose result the caller has not taken yet

moveVars == <<state, procure_method, picked, move_line_ids, links>>
chainVars == <<scrapped, propagate_cancel, picking_id>>
whVars == <<picking_type_id, location_id, location_dest_id, move_wh>>
configVars == <<delivery_steps, reception_steps, type_code>>
vars == <<moveVars, chainVars, whVars, configVars, wizard, last>>

MoveStates == {"draft", "waiting", "confirmed", "assigned", "done", "cancel"}
LiveStates == {"waiting", "confirmed", "assigned"}
ProcureMethods == {"make_to_stock", "make_to_order"}

\* The fields of the moves that the operations write, as one record.
Db == [state |-> state, picked |-> picked, move_line_ids |-> move_line_ids,
       procure_method |-> procure_method, links |-> links]

move_dest_ids(db, m) == {d \in Moves : <<m, d>> \in db.links}
move_orig_ids(db, m) == {o \in Moves : <<o, m>> \in db.links}
move_ids(P) == {m \in Moves : picking_id[m] \in P}
UsedPickings == {picking_id[m] : m \in Moves}

Min(S) == CHOOSE x \in S : \A y \in S : x <= y

\* ------------------------------------------------- host engine contract
\* stock.move._get_relevant_state_among_moves for move_type 'direct'.
RelevantState(db, ms) ==
  LET todo == {m \in ms : db.state[m] \notin {"cancel", "done"}}
  IN IF todo = {} THEN "assigned"
     ELSE IF \E m \in todo : db.state[m] = "assigned" THEN "assigned"
     ELSE IF \E m \in todo : db.state[m] = "waiting" THEN "waiting"
     ELSE "confirmed"

\* stock.picking._compute_state.
PickingState(db, p) ==
  LET ms == move_ids({p})
  IN IF ms = {} THEN "draft"
     ELSE IF \E m \in ms : db.state[m] = "draft" THEN "draft"
     ELSE IF \A m \in ms : db.state[m] = "cancel" THEN "cancel"
     ELSE IF \A m \in ms : db.state[m] \in {"cancel", "done"}
       THEN IF /\ \A m \in ms : db.state[m] = "done" => scrapped[m]
               /\ \E m \in ms : db.state[m] = "cancel" /\ ~scrapped[m]
            THEN "cancel" ELSE "done"
     ELSE RelevantState(db, ms)

\* ------------------------------------------------ models/stock_move.py
\* The cancellation writes followed by the standard chain-breaking write
\* ({'move_orig_ids': [(5, 0, 0)], 'procure_method': 'make_to_stock'}).
CancelWrite_BreakChain(db, moves_to_cancel) ==
  [db EXCEPT
     !.picked = [m \in Moves |-> IF m \in moves_to_cancel THEN FALSE ELSE @[m]],
     !.move_line_ids = [m \in Moves |-> IF m \in moves_to_cancel THEN FALSE ELSE @[m]],
     !.state = [m \in Moves |-> IF m \in moves_to_cancel THEN "cancel" ELSE @[m]],
     !.links = {l \in @ : l[2] \notin moves_to_cancel},
     !.procure_method = [m \in Moves |->
        IF m \in moves_to_cancel THEN "make_to_stock" ELSE @[m]]]

\* moves_to_cancel.picked = False; _do_unreserve(); state = "cancel"
CancelWrite(db, moves_to_cancel) ==
  [db EXCEPT
     !.picked = [m \in Moves |-> IF m \in moves_to_cancel THEN FALSE ELSE @[m]],
     !.move_line_ids = [m \in Moves |-> IF m \in moves_to_cancel THEN FALSE ELSE @[m]],
     !.state = [m \in Moves |-> IF m \in moves_to_cancel THEN "cancel" ELSE @[m]]]

RECURSIVE _action_cancel(_, _)
RECURSIVE CancelCascade(_, _)

\* The loop with the standard else branch: when propagate_cancel is not set and
\* every other predecessor is done or cancelled, the successors are set to
\* make_to_stock and unlinked from the move.
CancelCascade_StandardElse(todo, db) ==
  IF todo = {} THEN db
  ELSE LET move == Min(todo)
           dests == move_dest_ids(db, move)
           siblings == (UNION {move_orig_ids(db, d) : d \in dests}) \ {move}
           db2 == IF propagate_cancel[move]
                  THEN IF \A s \in siblings : db.state[s] = "cancel"
                       THEN _action_cancel({d \in dests : db.state[d] # "done"}, db).db
                       ELSE db
                  ELSE IF \A s \in siblings : db.state[s] \in {"done", "cancel"}
                       THEN [db EXCEPT
                               !.procure_method = [m \in Moves |->
                                  IF m \in dests THEN "make_to_stock" ELSE @[m]],
                               !.links = {l \in @ : ~(l[1] = move /\ l[2] \in dests)}]
                       ELSE db
       IN CancelCascade(todo \ {move}, db2)

\* The loop cascading to the successors whenever propagate_cancel is set,
\* without looking at their other predecessors.
CancelCascade_NoSiblingCheck(todo, db) ==
  IF todo = {} THEN db
  ELSE LET move == Min(todo)
           dests == move_dest_ids(db, move)
           db2 == IF propagate_cancel[move]
                  THEN _action_cancel({d \in dests : db.state[d] # "done"}, db).db
                  ELSE db
       IN CancelCascade(todo \ {move}, db2)

\* for move in moves_to_cancel: cascade to the successors when propagate_cancel
\* is set and every other predecessor of the successors is cancelled.
CancelCascade(todo, db) ==
  IF todo = {} THEN db
  ELSE LET move == Min(todo)
           dests == move_dest_ids(db, move)
           siblings == (UNION {move_orig_ids(db, d) : d \in dests}) \ {move}
           db2 == IF /\ propagate_cancel[move]
                     /\ \A s \in siblings : db.state[s] = "cancel"
                  THEN _action_cancel({d \in dests : db.state[d] # "done"}, db).db
                  ELSE db
       IN CancelCascade(todo \ {move}, db2)

\* _action_cancel with the done check made after the cancellation writes.
_action_cancel_LateCheck(self, db) ==
  LET moves_to_cancel ==
        {m \in self : /\ db.state[m] # "cancel" /\ db.state[m] # "done"}
  IN IF \E m \in self : db.state[m] = "done" /\ ~scrapped[m]
     THEN [raised |-> TRUE, db |-> CancelWrite(db, moves_to_cancel)]
     ELSE [raised |-> FALSE,
           db |-> CancelCascade(moves_to_cancel, CancelWrite(db, moves_to_cancel))]

\* StockMove._action_cancel with preserve_move_chain in the context.
_action_cancel(self, db) ==
  IF \E m \in self : db.state[m] = "done" /\ ~scrapped[m]
  THEN [raised |-> TRUE, db |-> db]
  ELSE LET moves_to_cancel ==
             {m \in self : /\ db.state[m] # "cancel"
                           /\ ~(db.state[m] = "done" /\ scrapped[m])}
       IN [raised |-> FALSE,
           db |-> CancelCascade(moves_to_cancel, CancelWrite(db, moves_to_cancel))]

RECURSIVE super_action_cancel(_, _)
RECURSIVE SuperCancelCascade(_, _)

\* The loop of the host's _action_cancel: the cascade under the same condition,
\* else the successors are set to make_to_stock and unlinked from the move.
SuperCancelCascade(todo, db) ==
  IF todo = {} THEN db
  ELSE LET move == Min(todo)
           dests == move_dest_ids(db, move)
           siblings == (UNION {move_orig_ids(db, d) : d \in dests}) \ {move}
           db2 == IF propagate_cancel[move]
                  THEN IF \A s \in siblings : db.state[s] = "cancel"
                       THEN super_action_cancel({d \in dests : db.state[d] # "done"}, db).db
                       ELSE db
                  ELSE IF \A s \in siblings : db.state[s] \in {"done", "cancel"}
                       THEN [db EXCEPT
                               !.procure_method = [m \in Moves |->
                                  IF m \in dests THEN "make_to_stock" ELSE @[m]],
                               !.links = {l \in @ : ~(l[1] = move /\ l[2] \in dests)}]
                       ELSE db
       IN SuperCancelCascade(todo \ {move}, db2)

\* stock.move._action_cancel of the host engine (super()._action_cancel()): the
\* cancellation writes, the loop, then the write that severs the predecessor
\* links of the cancelled moves and resets their procure_method.
super_action_cancel(self, db) ==
  IF \E m \in self : db.state[m] = "done" /\ ~scrapped[m]
  THEN [raised |-> TRUE, db |-> db]
  ELSE LET moves_to_cancel ==
             {m \in self : /\ db.state[m] # "cancel"
                           /\ ~(db.state[m] = "done" /\ scrapped[m])}
           db1 == SuperCancelCascade(moves_to_cancel, CancelWrite(db, moves_to_cancel))
       IN [raised |-> FALSE,
           db |-> [db1 EXCEPT
             !.links = {l \in @ : l[2] \notin moves_to_cancel},
             !.procure_method = [m \in Moves |->
                IF m \in moves_to_cancel THEN "make_to_stock" ELSE @[m]]]]

\* _action_cancel running the override's logic whatever the context.
_action_cancel_AnyContext(self, preserve_move_chain, db) ==
  _action_cancel(self, db)

\* StockMove._action_cancel, the context given as an argument: without
\* preserve_move_chain the call is the host's.
_action_cancel_in_context(self, preserve_move_chain, db) ==
  IF ~preserve_move_chain THEN super_action_cancel(self, db)
  ELSE _action_cancel(self, db)
RECURSIVE CancelCalls(_, _)
RECURSIVE CascadeCalls(_, _)

\* The loop of the preserve-chain cancel, keeping the moves_to_cancel of every
\* call it makes: acc is the record of the moves' fields and the calls so far.
CascadeCalls(todo, acc) ==
  IF todo = {} THEN acc
  ELSE LET move == Min(todo)
           dests == move_dest_ids(acc.db, move)
           siblings == (UNION {move_orig_ids(acc.db, d) : d \in dests}) \ {move}
           acc2 == IF /\ propagate_cancel[move]
                      /\ \A s \in siblings : acc.db.state[s] = "cancel"
                   THEN LET r == CancelCalls({d \in dests : acc.db.state[d] # "done"},
                                             acc.db)
                        IN [db |-> r.db, calls |-> acc.calls \o r.calls]
                   ELSE acc
       IN CascadeCalls(todo \ {move}, acc2)

\* The preserve-chain cancel writing state = "cancel" on every move of the
\* recordset that is not done, the already cancelled ones included.
CancelCalls_Recancel(self, db) ==
  IF \E m \in self : db.state[m] = "done" /\ ~scrapped[m]
  THEN [db |-> db, calls |-> <<>>]
  ELSE LET moves_to_cancel ==
             {m \in self : /\ db.state[m] # "cancel"
                           /\ ~(db.state[m] = "done" /\ scrapped[m])}
           written == {m \in self : ~(db.state[m] = "done" /\ scrapped[m])}
       IN CascadeCalls(moves_to_cancel,
                       [db |-> CancelWrite(db, written), calls |-> <<written>>])

\* The preserve-chain _action_cancel with the calls it makes, itself first: the
\* moves_to_cancel of each call, in the order of the calls.
CancelCalls(self, db) ==
  IF \E m \in self : db.state[m] = "done" /\ ~scrapped[m]
  THEN [db |-> db, calls |-> <<>>]
  ELSE LET moves_to_cancel ==
             {m \in self : /\ db.state[m] # "cancel"
                           /\ ~(db.state[m] = "done" /\ scrapped[m])}
       IN CascadeCalls(moves_to_cancel,
                       [db |-> CancelWrite(db, moves_to_cancel),
                        calls |-> <<moves_to_cancel>>])
\* action_back_to_draft restoring the cancelled moves of the set and skipping
\* the others instead of raising.
action_back_to_draft_Filtered(self, db) ==
  LET cancelled == {m \in self : db.state[m] = "cancel"}
      moves_with_chain == {m \in cancelled : move_orig_ids(db, m) # {}}
  IN [raised |-> FALSE,
      db |-> [db EXCEPT
        !.state = [m \in Moves |-> IF m \in cancelled THEN "draft" ELSE @[m]],
        !.procure_method = [m \in Moves |->
           IF m \in moves_with_chain THEN "make_to_order" ELSE @[m]]]]

\* action_back_to_draft without the check on the state of the moves.
action_back_to_draft_Unchecked(self, db) ==
  LET moves_with_chain == {m \in self : move_orig_ids(db, m) # {}}
  IN [raised |-> FALSE,
      db |-> [db EXCEPT
        !.state = [m \in Moves |-> IF m \in self THEN "draft" ELSE @[m]],
        !.procure_method = [m \in Moves |->
           IF m \in moves_with_chain THEN "make_to_order" ELSE @[m]]]]

\* action_back_to_draft writing make_to_order on every move it restores.
action_back_to_draft_AllMto(self, db) ==
  IF \E m \in self : db.state[m] # "cancel"
  THEN [raised |-> TRUE, db |-> db]
  ELSE [raised |-> FALSE,
        db |-> [db EXCEPT
          !.state = [m \in Moves |-> IF m \in self THEN "draft" ELSE @[m]],
          !.procure_method = [m \in Moves |->
             IF m \in self THEN "make_to_order" ELSE @[m]]]]

\* StockMove.action_back_to_draft.
action_back_to_draft(self, db) ==
  IF \E m \in self : db.state[m] # "cancel"
  THEN [raised |-> TRUE, db |-> db]
  ELSE LET moves_with_chain == {m \in self : move_orig_ids(db, m) # {}}
       IN [raised |-> FALSE,
           db |-> [db EXCEPT
             !.state = [m \in Moves |-> IF m \in self THEN "draft" ELSE @[m]],
             !.procure_method = [m \in Moves |->
                IF m \in moves_with_chain THEN "make_to_order" ELSE @[m]]]]

\* --------------------------------------------- models/stock_picking.py
\* stock.picking.action_cancel of the host, called with preserve_move_chain.
picking_action_cancel(P, db) == _action_cancel(move_ids(P), db)

\* StockPicking.action_cancel_back_to_draft, after the permission check.
CancelBackToDraftBody(self, db) ==
  LET pickings_to_cancel == {p \in self : PickingState(db, p) # "cancel"}
      moves == move_ids(pickings_to_cancel)
      dest_move_ids_to_track ==
        {d \in UNION {move_dest_ids(db, m) : m \in {x \in moves : propagate_cancel[x]}} :
           db.state[d] \notin {"done", "cancel"}}
      dest_pickings_to_reset0 ==
        {picking_id[d] : d \in {x \in UNION {move_dest_ids(db, m) : m \in moves} :
                                  db.state[x] \in LiveStates}}
      r1 == IF pickings_to_cancel = {} THEN [raised |-> FALSE, db |-> db]
            ELSE picking_action_cancel(pickings_to_cancel, db)
      cancelled1 == IF pickings_to_cancel = {} THEN {}
                    ELSE {d \in dest_move_ids_to_track : r1.db.state[d] = "cancel"}
      dest_pickings_to_reset ==
        IF pickings_to_cancel = {} THEN {}
        ELSE {p \in dest_pickings_to_reset0 : PickingState(r1.db, p) \in LiveStates}
      r2 == IF dest_pickings_to_reset = {} THEN r1
            ELSE picking_action_cancel(dest_pickings_to_reset, r1.db)
      cancelled_dest_move_ids == cancelled1 \cup move_ids(dest_pickings_to_reset)
      r3 == action_back_to_draft(move_ids(self), r2.db)
      r4 == IF cancelled_dest_move_ids = {} THEN r3
            ELSE action_back_to_draft(cancelled_dest_move_ids, r3.db)
  IN IF r1.raised THEN r1
     ELSE IF r2.raised THEN r2
     ELSE IF r3.raised THEN r3
     ELSE r4

\* _check_cancel_back_to_draft_allowed, then the body.
action_cancel_back_to_draft(self, has_group, db) ==
  IF ~has_group THEN [result |-> "AccessError", db |-> db]
  ELSE LET r == CancelBackToDraftBody(self, db)
       IN [result |-> IF r.raised THEN "UserError" ELSE "ok", db |-> r.db]

\* action_open_change_warehouse_wizard with the done check made first.
action_open_change_warehouse_wizard_DoneFirst(self, has_group, db) ==
  IF \E p \in self : PickingState(db, p) = "done" THEN "UserError"
  ELSE IF ~has_group THEN "AccessError"
  ELSE "ok"

\* StockPicking.action_open_change_warehouse_wizard.
action_open_change_warehouse_wizard(self, has_group, db) ==
  IF ~has_group THEN "AccessError"
  ELSE IF \E p \in self : PickingState(db, p) = "done" THEN "UserError"
  ELSE "ok"

\* ------------------------------------- stock.warehouse, stock.location
\* A location is <<warehouse, role>>; the partner locations belong to no warehouse.
NoWarehouse == 0
SupplierLocation == <<NoWarehouse, "supplier">>
CustomerLocation == <<NoWarehouse, "customer">>
lot_stock_id(w) == <<w, "stock">>
wh_input_stock_loc_id(w) == <<w, "input">>
wh_output_stock_loc_id(w) == <<w, "output">>
wh_pack_stock_loc_id(w) == <<w, "pack">>
usage(loc) == IF loc[2] \in {"supplier", "customer"} THEN loc[2] ELSE "internal"

DeliverySteps == {"ship_only", "pick_ship", "pick_pack_ship"}
ReceptionSteps == {"one_step", "two_steps", "three_steps"}

\* --------------------------------------------------- stock.picking.type
\* An operation type is <<warehouse, sequence code>>.
TypeNames == {"IN", "INT", "PICK", "PACK", "OUT"}
NoType == <<NoWarehouse, "none">>
type_warehouse_id(t) == t[1]
sequence_code(t) == t[2]
Types == Warehouses \X TypeNames
Codes == {"incoming", "outgoing", "internal"}
\* The category the host gives to the types it creates for a warehouse.
DefaultCode(t) ==
  CASE t[2] = "IN" -> "incoming"
    [] t[2] = "OUT" -> "outgoing"
    [] OTHER -> "internal"
\* The code field; an empty recordset has none.
code(t) == IF type_warehouse_id(t) \in Warehouses THEN type_code[t] ELSE "none"
TypeSequence(n) ==
  CASE n = "IN" -> 1 [] n = "INT" -> 2 [] n = "PICK" -> 3 [] n = "PACK" -> 4 [] OTHER -> 5

\* The operation types of a warehouse that are active under its step configuration.
ActiveTypes(w) ==
  {<<w, n>> : n \in {x \in TypeNames :
     CASE x = "PICK" -> delivery_steps[w] # "ship_only"
       [] x = "PACK" -> delivery_steps[w] = "pick_pack_ship"
       [] x = "INT" -> reception_steps[w] # "one_step"
       [] OTHER -> TRUE}}

default_location_src_id(t) ==
  CASE t[2] = "OUT" -> IF delivery_steps[t[1]] = "ship_only"
                       THEN lot_stock_id(t[1]) ELSE wh_output_stock_loc_id(t[1])
    [] t[2] = "PACK" -> wh_pack_stock_loc_id(t[1])
    [] t[2] = "IN" -> SupplierLocation
    [] OTHER -> lot_stock_id(t[1])

default_location_dest_id(t) ==
  CASE t[2] = "IN" -> IF reception_steps[t[1]] = "one_step"
                      THEN lot_stock_id(t[1]) ELSE wh_input_stock_loc_id(t[1])
    [] t[2] = "PICK" -> IF delivery_steps[t[1]] = "pick_pack_ship"
                        THEN wh_pack_stock_loc_id(t[1]) ELSE wh_output_stock_loc_id(t[1])
    [] t[2] = "PACK" -> wh_output_stock_loc_id(t[1])
    [] t[2] = "OUT" -> CustomerLocation
    [] OTHER -> lot_stock_id(t[1])

\* search(domain, limit=1): the first match in the order of the type's sequence.
SearchFirst(T) ==
  IF T = {} THEN NoType
  ELSE CHOOSE t \in T : \A u \in T : TypeSequence(t[2]) <= TypeSequence(u[2])

\* --------------------------- wizard/stock_picking_change_warehouse.py
\* The fields of the pickings and moves that the remap writes, as one record.
Wh == [picking_type_id |-> picking_type_id, location_id |-> location_id,
       location_dest_id |-> location_dest_id, move_wh |-> move_wh]

NoWizard == [open |-> FALSE, picking_ids |-> {}, current_warehouse_id |-> NoWarehouse,
             new_warehouse_id |-> NoWarehouse, include_chained_pickings |-> FALSE]

\* StockPickingChangeWarehouse.default_get, with the values given to create().
default_get(active_ids, new_warehouse_id, include_chained_pickings) ==
  LET warehouses == {type_warehouse_id(picking_type_id[p]) : p \in active_ids}
  IN [open |-> TRUE,
      picking_ids |-> active_ids,
      current_warehouse_id |->
        IF Cardinality(warehouses) = 1 THEN CHOOSE w \in warehouses : TRUE
        ELSE NoWarehouse,
      new_warehouse_id |-> new_warehouse_id,
      include_chained_pickings |-> include_chained_pickings]

RECURSIVE DownstreamWalk(_, _, _)
\* while dest_moves: ... (the downstream loop)
DownstreamWalk(db, all_pickings, dest_moves) ==
  IF dest_moves = {} THEN all_pickings
  ELSE LET dest_pickings == {picking_id[m] : m \in dest_moves}
           new_pickings == dest_pickings \ all_pickings
       IN IF new_pickings # {}
          THEN DownstreamWalk(db, all_pickings \cup new_pickings,
                 UNION {move_dest_ids(db, m) : m \in move_ids(new_pickings)})
          ELSE all_pickings

RECURSIVE UpstreamWalk(_, _, _)
\* while orig_moves: ... (the upstream loop)
UpstreamWalk(db, all_pickings, orig_moves) ==
  IF orig_moves = {} THEN all_pickings
  ELSE LET orig_pickings == {picking_id[m] : m \in orig_moves}
           new_pickings == orig_pickings \ all_pickings
       IN IF new_pickings # {}
          THEN UpstreamWalk(db, all_pickings \cup new_pickings,
                 UNION {move_orig_ids(db, m) : m \in move_ids(new_pickings)})
          ELSE all_pickings

\* StockPickingChangeWarehouse._get_all_chained_pickings.
_get_all_chained_pickings(db, pickings) ==
  LET moves == move_ids(pickings)
      down == DownstreamWalk(db, pickings, UNION {move_dest_ids(db, m) : m \in moves})
  IN UpstreamWalk(db, down, UNION {move_orig_ids(db, m) : m \in moves})

\* _compute_chained_pickings running the chain discovery whatever the flag.
chained_picking_ids_Always(db, wiz) ==
  _get_all_chained_pickings(db, wiz.picking_ids)

\* StockPickingChangeWarehouse._compute_chained_pickings.
chained_picking_ids(db, wiz) ==
  IF wiz.include_chained_pickings
  THEN _get_all_chained_pickings(db, wiz.picking_ids)
  ELSE wiz.picking_ids

picking_count(db, wiz) == Cardinality(chained_picking_ids(db, wiz))

\* _get_equivalent_picking_type matching on the operation code only.
_get_equivalent_picking_type_ByCode(old_picking_type, new_warehouse) ==
  SearchFirst({t \in ActiveTypes(new_warehouse) : code(t) = code(old_picking_type)})

\* StockPickingChangeWarehouse._get_equivalent_picking_type.
_get_equivalent_picking_type(old_picking_type, new_warehouse) ==
  LET by_sequence_code == SearchFirst({t \in ActiveTypes(new_warehouse) :
                            sequence_code(t) = sequence_code(old_picking_type)})
  IN IF by_sequence_code # NoType THEN by_sequence_code
     ELSE SearchFirst({t \in ActiveTypes(new_warehouse) : code(t) = code(old_picking_type)})

\* _get_new_source_location without the two checks on the usage of the old location.
_get_new_source_location_NoExternalCheck(wh, picking, new_picking_type, new_warehouse) ==
  LET old_location == wh.location_id[picking]
      old_warehouse == type_warehouse_id(wh.picking_type_id[picking])
  IN IF code(new_picking_type) = "internal" /\ old_location = lot_stock_id(old_warehouse)
       THEN lot_stock_id(new_warehouse)
     ELSE IF code(new_picking_type) = "internal"
             /\ old_location = wh_output_stock_loc_id(old_warehouse)
       THEN wh_output_stock_loc_id(new_warehouse)
     ELSE IF code(new_picking_type) = "internal"
             /\ old_location = wh_input_stock_loc_id(old_warehouse)
       THEN wh_input_stock_loc_id(new_warehouse)
     ELSE IF code(new_picking_type) = "outgoing"
       THEN IF delivery_steps[new_warehouse] \in {"pick_ship", "pick_pack_ship"}
            THEN wh_output_stock_loc_id(new_warehouse)
            ELSE lot_stock_id(new_warehouse)
     ELSE IF code(new_picking_type) = "incoming" THEN old_location
     ELSE default_location_src_id(new_picking_type)

\* _get_new_source_location taking the output location for a 2-step delivery only.
_get_new_source_location_TwoStepOnly(wh, picking, new_picking_type, new_warehouse) ==
  LET old_location == wh.location_id[picking]
      old_warehouse == type_warehouse_id(wh.picking_type_id[picking])
  IN IF usage(old_location) = "supplier" THEN old_location
     ELSE IF usage(old_location) = "customer" THEN old_location
     ELSE IF code(new_picking_type) = "internal" /\ old_location = lot_stock_id(old_warehouse)
       THEN lot_stock_id(new_warehouse)
     ELSE IF code(new_picking_type) = "internal"
             /\ old_location = wh_output_stock_loc_id(old_warehouse)
       THEN wh_output_stock_loc_id(new_warehouse)
     ELSE IF code(new_picking_type) = "internal"
             /\ old_location = wh_input_stock_loc_id(old_warehouse)
       THEN wh_input_stock_loc_id(new_warehouse)
     ELSE IF code(new_picking_type) = "outgoing"
       THEN IF delivery_steps[new_warehouse] = "pick_ship"
            THEN wh_output_stock_loc_id(new_warehouse)
            ELSE lot_stock_id(new_warehouse)
     ELSE IF code(new_picking_type) = "incoming" THEN old_location
     ELSE default_location_src_id(new_picking_type)

\* StockPickingChangeWarehouse._get_new_source_location.
_get_new_source_location(wh, picking, new_picking_type, new_warehouse) ==
  LET old_location == wh.location_id[picking]
      old_warehouse == type_warehouse_id(wh.picking_type_id[picking])
  IN IF usage(old_location) = "supplier" THEN old_location
     ELSE IF usage(old_location) = "customer" THEN old_location
     ELSE IF code(new_picking_type) = "internal" /\ old_location = lot_stock_id(old_warehouse)
       THEN lot_stock_id(new_warehouse)
     ELSE IF code(new_picking_type) = "internal"
             /\ old_location = wh_output_stock_loc_id(old_warehouse)
       THEN wh_output_stock_loc_id(new_warehouse)
     ELSE IF code(new_picking_type) = "internal"
             /\ old_location = wh_input_stock_loc_id(old_warehouse)
       THEN wh_input_stock_loc_id(new_warehouse)
     ELSE IF code(new_picking_type) = "outgoing"
       THEN IF delivery_steps[new_warehouse] \in {"pick_ship", "pick_pack_ship"}
            THEN wh_output_stock_loc_id(new_warehouse)
            ELSE lot_stock_id(new_warehouse)
     ELSE IF code(new_picking_type) = "incoming" THEN old_location
     ELSE default_location_src_id(new_picking_type)

\* _get_new_dest_location sending every receipt to the input location,
\* whatever the reception steps of the new warehouse.
_get_new_dest_location_AlwaysInput(wh, picking, new_picking_type, new_warehouse) ==
  LET old_location == wh.location_dest_id[picking]
      old_warehouse == type_warehouse_id(wh.picking_type_id[picking])
  IN IF usage(old_location) = "customer" THEN old_location
     ELSE IF usage(old_location) = "supplier" THEN old_location
     ELSE IF code(new_picking_type) = "internal"
             /\ old_location = wh_output_stock_loc_id(old_warehouse)
       THEN wh_output_stock_loc_id(new_warehouse)
     ELSE IF code(new_picking_type) = "internal" /\ old_location = lot_stock_id(old_warehouse)
       THEN lot_stock_id(new_warehouse)
     ELSE IF code(new_picking_type) = "internal"
             /\ old_location = wh_pack_stock_loc_id(old_warehouse)
       THEN wh_pack_stock_loc_id(new_warehouse)
     ELSE IF code(new_picking_type) = "outgoing" THEN old_location
     ELSE IF code(new_picking_type) = "incoming" THEN wh_input_stock_loc_id(new_warehouse)
     ELSE default_location_dest_id(new_picking_type)

\* StockPickingChangeWarehouse._get_new_dest_location.
_get_new_dest_location(wh, picking, new_picking_type, new_warehouse) ==
  LET old_location == wh.location_dest_id[picking]
      old_warehouse == type_warehouse_id(wh.picking_type_id[picking])
  IN IF usage(old_location) = "customer" THEN old_location
     ELSE IF usage(old_location) = "supplier" THEN old_location
     ELSE IF code(new_picking_type) = "internal"
             /\ old_location = wh_output_stock_loc_id(old_warehouse)
       THEN wh_output_stock_loc_id(new_warehouse)
     ELSE IF code(new_picking_type) = "internal" /\ old_location = lot_stock_id(old_warehouse)
       THEN lot_stock_id(new_warehouse)
     ELSE IF code(new_picking_type) = "internal"
             /\ old_location = wh_pack_stock_loc_id(old_warehouse)
       THEN wh_pack_stock_loc_id(new_warehouse)
     ELSE IF code(new_picking_type) = "outgoing" THEN old_location
     ELSE IF code(new_picking_type) = "incoming"
       THEN IF reception_steps[new_warehouse] \in {"two_steps", "three_steps"}
            THEN wh_input_stock_loc_id(new_warehouse)
            ELSE lot_stock_id(new_warehouse)
     ELSE default_location_dest_id(new_picking_type)

\* _update_picking_warehouse writing the picking only, not its moves.
_update_picking_warehouse_PickingOnly(wh, picking, new_warehouse) ==
  LET old_picking_type == wh.picking_type_id[picking]
      new_picking_type == _get_equivalent_picking_type(old_picking_type, new_warehouse)
      new_location_id == _get_new_source_location(wh, picking, new_picking_type, new_warehouse)
      new_location_dest_id == _get_new_dest_location(wh, picking, new_picking_type, new_warehouse)
  IN IF new_picking_type = NoType THEN [raised |-> TRUE, wh |-> wh]
     ELSE [raised |-> FALSE,
           wh |-> [wh EXCEPT
             !.picking_type_id[picking] = new_picking_type,
             !.location_id[picking] = new_location_id,
             !.location_dest_id[picking] = new_location_dest_id]]

\* _update_picking_warehouse reading the old warehouse from the first picking
\* of the table instead of the picking it updates.
_update_picking_warehouse_ByFirstPicking(wh, picking, new_warehouse) ==
  LET old_picking_type == wh.picking_type_id[picking]
      new_picking_type == _get_equivalent_picking_type(old_picking_type, new_warehouse)
      seen == [wh EXCEPT !.picking_type_id[picking] =
                 <<type_warehouse_id(wh.picking_type_id[Min(Pickings)]),
                   sequence_code(old_picking_type)>>]
      new_location_id == _get_new_source_location(seen, picking, new_picking_type, new_warehouse)
      new_location_dest_id == _get_new_dest_location(seen, picking, new_picking_type, new_warehouse)
      move_vals == [picking_type_id |-> new_picking_type,
                    warehouse_id |-> new_warehouse,
                    location_id |-> new_location_id,
                    location_dest_id |-> new_location_dest_id]
  IN IF new_picking_type = NoType THEN [raised |-> TRUE, wh |-> wh]
     ELSE [raised |-> FALSE,
           wh |-> [wh EXCEPT
             !.picking_type_id[picking] = new_picking_type,
             !.location_id[picking] = new_location_id,
             !.location_dest_id[picking] = new_location_dest_id,
             !.move_wh = [m \in Moves |->
                IF picking_id[m] = picking THEN move_vals ELSE @[m]]]]

\* StockPickingChangeWarehouse._update_picking_warehouse.
_update_picking_warehouse(wh, picking, new_warehouse) ==
  LET old_picking_type == wh.picking_type_id[picking]
      new_picking_type == _get_equivalent_picking_type(old_picking_type, new_warehouse)
      new_location_id == _get_new_source_location(wh, picking, new_picking_type, new_warehouse)
      new_location_dest_id == _get_new_dest_location(wh, picking, new_picking_type, new_warehouse)
      move_vals == [picking_type_id |-> new_picking_type,
                    warehouse_id |-> new_warehouse,
                    location_id |-> new_location_id,
                    location_dest_id |-> new_location_dest_id]
  IN IF new_picking_type = NoType THEN [raised |-> TRUE, wh |-> wh]
     ELSE [raised |-> FALSE,
           wh |-> [wh EXCEPT
             !.picking_type_id[picking] = new_picking_type,
             !.location_id[picking] = new_location_id,
             !.location_dest_id[picking] = new_location_dest_id,
             !.move_wh = [m \in Moves |->
                IF picking_id[m] = picking THEN move_vals ELSE @[m]]]]

RECURSIVE UpdateInOrder(_, _, _)
\* The loop over the pickings taken in a given order.
UpdateInOrder(wh, order, new_warehouse) ==
  IF order = <<>> THEN [raised |-> FALSE, wh |-> wh]
  ELSE LET r == _update_picking_warehouse(wh, Head(order), new_warehouse)
       IN IF r.raised THEN r
          ELSE UpdateInOrder(r.wh, Tail(order), new_warehouse)

RECURSIVE UpdateEachFrom(_, _, _, _)
\* The loop giving back the values it started from when an update raises.
UpdateEachFrom(start, wh, pickings, new_warehouse) ==
  IF pickings = {} THEN [raised |-> FALSE, wh |-> wh]
  ELSE LET picking == Min(pickings)
           r == _update_picking_warehouse(wh, picking, new_warehouse)
       IN IF r.raised THEN [raised |-> TRUE, wh |-> start]
          ELSE UpdateEachFrom(start, r.wh, pickings \ {picking}, new_warehouse)
UpdateEach_Rollback(wh, pickings, new_warehouse) ==
  UpdateEachFrom(wh, wh, pickings, new_warehouse)

RECURSIVE UpdateEach(_, _, _)
\* for picking in pickings: self._update_picking_warehouse(picking, new_warehouse_id)
UpdateEach(wh, pickings, new_warehouse) ==
  IF pickings = {} THEN [raised |-> FALSE, wh |-> wh]
  ELSE LET picking == Min(pickings)
           r == _update_picking_warehouse(wh, picking, new_warehouse)
       IN IF r.raised THEN r
          ELSE UpdateEach(r.wh, pickings \ {picking}, new_warehouse)

RECURSIVE UpdateEachValid(_, _, _, _)
\* The loop with the state check made per picking, just before its update.
UpdateEachValid(db, wh, pickings, new_warehouse) ==
  IF pickings = {} THEN [raised |-> FALSE, wh |-> wh]
  ELSE LET picking == Min(pickings)
           r == _update_picking_warehouse(wh, picking, new_warehouse)
       IN IF PickingState(db, picking) \notin {"draft", "cancel"} \/ r.raised
          THEN [raised |-> TRUE, wh |-> wh]
          ELSE UpdateEachValid(db, r.wh, pickings \ {picking}, new_warehouse)

\* action_change_warehouse with the state validation inside the update loop.
action_change_warehouse_ValidateInLoop(wiz, db, wh) ==
  LET pickings == IF wiz.include_chained_pickings
                  THEN chained_picking_ids(db, wiz) ELSE wiz.picking_ids
      r == UpdateEachValid(db, wh, pickings, wiz.new_warehouse_id)
  IN IF wiz.new_warehouse_id = NoWarehouse THEN [result |-> "UserError", wh |-> wh]
     ELSE IF wiz.new_warehouse_id = wiz.current_warehouse_id
       THEN [result |-> "UserError", wh |-> wh]
     ELSE [result |-> IF r.raised THEN "UserError" ELSE "ok", wh |-> r.wh]

\* StockPickingChangeWarehouse.action_change_warehouse.
action_change_warehouse(wiz, db, wh) ==
  LET pickings == IF wiz.include_chained_pickings
                  THEN chained_picking_ids(db, wiz) ELSE wiz.picking_ids
      invalid_pickings == {p \in pickings : PickingState(db, p) \notin {"draft", "cancel"}}
      r == UpdateEach(wh, pickings, wiz.new_warehouse_id)
  IN IF wiz.new_warehouse_id = NoWarehouse THEN [result |-> "UserError", wh |-> wh]
     ELSE IF wiz.new_warehouse_id = wiz.current_warehouse_id
       THEN [result |-> "UserError", wh |-> wh]
     ELSE IF invalid_pickings # {} THEN [result |-> "UserError", wh |-> wh]
     ELSE [result |-> IF r.raised THEN "UserError" ELSE "ok", wh |-> r.wh]

\* ---------------------------------------------------------------- Init
AllLinks == {<<a, b>> \in Moves \X Moves : a < b}
NoCall == [op |-> "none", seeds |-> {}, has_group |-> TRUE, result |-> "ok"]

\* Every picking is a one-step delivery of warehouse 1, as tests/test_picking.py
\* creates them.
DeliveryOnly ==
  /\ delivery_steps = [w \in Warehouses |-> "ship_only"]
  /\ reception_steps = [w \in Warehouses |-> "one_step"]
  /\ type_code = [t \in Types |-> DefaultCode(t)]
  /\ picking_type_id = [p \in Pickings |-> <<1, "OUT">>]
  /\ location_id = [p \in Pickings |-> lot_stock_id(1)]
  /\ location_dest_id = [p \in Pickings |-> CustomerLocation]
  /\ move_wh = [m \in Moves |-> [picking_type_id |-> <<1, "OUT">>, warehouse_id |-> 1,
                                  location_id |-> lot_stock_id(1),
                                  location_dest_id |-> CustomerLocation]]

\* Chained moves belong to different pickings (a picking's moves share its
\* locations); a scrapped move is a stand-alone scrap move; a move waits only
\* on a predecessor.
ChainShape ==
  /\ links \in SUBSET AllLinks
  /\ picking_id \in [Moves -> Pickings]
  /\ \A m \in Moves : picking_id[m] <= 1 + Cardinality({picking_id[k] : k \in 1..(m-1)})
  /\ \A l \in links : picking_id[l[1]] # picking_id[l[2]]

Reservation ==
  /\ picked = [m \in Moves |-> state[m] \in {"assigned", "done"}]
  /\ move_line_ids = [m \in Moves |-> state[m] \in {"assigned", "done"}]

Init ==
  /\ ChainShape
  /\ state \in [Moves -> MoveStates]
  /\ \A m \in Moves : state[m] = "waiting" => \E o \in Moves : <<o, m>> \in links
  /\ scrapped \in [Moves -> BOOLEAN]
  /\ \A m \in Moves : scrapped[m] =>
        state[m] = "done" /\ \A l \in links : m # l[1] /\ m # l[2]
  /\ propagate_cancel \in [Moves -> BOOLEAN]
  /\ \A m \in Moves : (\A d \in Moves : <<m, d>> \notin links) => propagate_cancel[m]
  /\ procure_method \in [Moves -> ProcureMethods]
  /\ \A m \in Moves : (\A o \in Moves : <<o, m>> \notin links) => procure_method[m] = "make_to_stock"
  /\ Reservation
  /\ DeliveryOnly
  /\ wizard = NoWizard
  /\ last = NoCall

\* ------------------------------------------------------------- actions
Store(db) ==
  /\ state' = db.state
  /\ picked' = db.picked
  /\ move_line_ids' = db.move_line_ids
  /\ procure_method' = db.procure_method
  /\ links' = db.links

StoreWh(wh) ==
  /\ picking_type_id' = wh.picking_type_id
  /\ location_id' = wh.location_id
  /\ location_dest_id' = wh.location_dest_id
  /\ move_wh' = wh.move_wh

CancelBackToDraft ==
  /\ last = NoCall /\ ~wizard.open
  /\ \E self \in (SUBSET UsedPickings) \ {{}}, has_group \in BOOLEAN :
       LET r == action_cancel_back_to_draft(self, has_group, Db)
       IN /\ Store(r.db)
          /\ last' = [op |-> "cancel_back_to_draft", seeds |-> self,
                      has_group |-> has_group, result |-> r.result]
  /\ UNCHANGED <<chainVars, whVars, configVars, wizard>>

OpenChangeWarehouseWizard ==
  /\ last = NoCall /\ ~wizard.open
  /\ \E self \in (SUBSET UsedPickings) \ {{}}, has_group \in BOOLEAN :
       last' = [op |-> "open_change_warehouse_wizard", seeds |-> self,
                has_group |-> has_group,
                result |-> action_open_change_warehouse_wizard(self, has_group, Db)]
  /\ UNCHANGED <<moveVars, chainVars, whVars, configVars, wizard>>

\* The wizard record is created for the selected pickings (default_get).
CreateWizard ==
  /\ last = NoCall /\ ~wizard.open
  /\ \E active_ids \in (SUBSET UsedPickings) \ {{}},
        new_warehouse_id \in Warehouses \cup {NoWarehouse},
        include_chained_pickings \in BOOLEAN :
       wizard' = default_get(active_ids, new_warehouse_id, include_chained_pickings)
  /\ UNCHANGED <<moveVars, chainVars, whVars, configVars, last>>

\* action_change_warehouse called by a user who has the addon's group or has not:
\* the method does not look at the user.
ChangeWarehouseAs(has_group) ==
  /\ last = NoCall /\ wizard.open
  /\ LET r == action_change_warehouse(wizard, Db, Wh)
     IN /\ StoreWh(r.wh)
        /\ last' = [op |-> "change_warehouse", seeds |-> wizard.picking_ids,
                    has_group |-> has_group, result |-> r.result]
  /\ UNCHANGED <<moveVars, chainVars, configVars, wizard>>

\* The wizard's button pressed by the user of the tests, who has the group.
ChangeWarehouse == ChangeWarehouseAs(TRUE)

\* The wizard's button pressed by any user.
ChangeWarehouseAsAnyUser == \E has_group \in BOOLEAN : ChangeWarehouseAs(has_group)

\* The call returns to its caller; a wizard is closed.
Return ==
  /\ last # NoCall
  /\ last' = NoCall
  /\ wizard' = NoWizard
  /\ UNCHANGED <<moveVars, chainVars, whVars, configVars>>

Next == CancelBackToDraft \/ OpenChangeWarehouseWizard \/ Return

Spec == Init /\ [][Next]_vars

\* ------------------------------------------- the change-warehouse sessions
Kinds == {"IN", "PICK", "PACK", "OUT"}
KindType(w, k) == <<w, k>>
KindSource(w, k) ==
  CASE k = "IN" -> SupplierLocation
    [] k = "PICK" -> lot_stock_id(w)
    [] k = "PACK" -> wh_pack_stock_loc_id(w)
    [] OTHER -> IF delivery_steps[w] = "ship_only"
                THEN lot_stock_id(w) ELSE wh_output_stock_loc_id(w)
KindDest(w, k) ==
  CASE k = "IN" -> IF reception_steps[w] = "one_step"
                   THEN lot_stock_id(w) ELSE wh_input_stock_loc_id(w)
    [] k = "PICK" -> IF delivery_steps[w] = "pick_pack_ship"
                     THEN wh_pack_stock_loc_id(w) ELSE wh_output_stock_loc_id(w)
    [] k = "PACK" -> wh_output_stock_loc_id(w)
    [] OTHER -> CustomerLocation

\* Pickings of two warehouses: receipts, picks, packs and deliveries with the
\* locations their warehouse's routes give them. Warehouse 1 is 2-step; the
\* others are 1-step, 2-step or 3-step, in reception and delivery alike.
InitWh ==
  /\ ChainShape
  /\ \A m \in Moves : picking_id[m] <= 2
  /\ state \in [Moves -> {"draft", "confirmed", "done", "cancel"}]
  /\ scrapped = [m \in Moves |-> FALSE]
  /\ propagate_cancel = [m \in Moves |-> TRUE]
  /\ procure_method = [m \in Moves |->
       IF \E o \in Moves : <<o, m>> \in links THEN "make_to_order" ELSE "make_to_stock"]
  /\ Reservation
  /\ delivery_steps \in {[w \in Warehouses |-> IF w = 1 THEN "pick_ship" ELSE d] :
                           d \in DeliverySteps}
  /\ reception_steps \in {[w \in Warehouses |-> IF w = 1 THEN "two_steps" ELSE r] :
                            r \in ReceptionSteps}
  /\ \A w \in Warehouses :
       /\ delivery_steps[w] = "ship_only" <=> reception_steps[w] = "one_step"
       /\ delivery_steps[w] = "pick_pack_ship" <=> reception_steps[w] = "three_steps"
  /\ type_code = [t \in Types |-> DefaultCode(t)]
  /\ \E pw \in [Pickings -> Warehouses], pk \in [Pickings -> Kinds] :
       /\ pw[1] = 1
       /\ \A p \in Pickings \ UsedPickings : pw[p] = 1 /\ pk[p] = "OUT"
       /\ \A p \in Pickings : KindType(pw[p], pk[p]) \in ActiveTypes(pw[p])
       /\ picking_type_id = [p \in Pickings |-> KindType(pw[p], pk[p])]
       /\ location_id = [p \in Pickings |-> KindSource(pw[p], pk[p])]
       /\ location_dest_id = [p \in Pickings |-> KindDest(pw[p], pk[p])]
       /\ move_wh = [m \in Moves |->
            [picking_type_id |-> KindType(pw[picking_id[m]], pk[picking_id[m]]),
             warehouse_id |-> pw[picking_id[m]],
             location_id |-> KindSource(pw[picking_id[m]], pk[picking_id[m]]),
             location_dest_id |-> KindDest(pw[picking_id[m]], pk[picking_id[m]])]]
  /\ wizard = NoWizard
  /\ last = NoCall

NextWh == CreateWizard \/ ChangeWarehouse \/ Return

SpecWh == InitWh /\ [][NextWh]_vars

\* One or two draft pickings of warehouse 1, of any kind its configuration has,
\* linked in any acyclic way; each warehouse has any delivery and any reception
\* steps.
InitSteps ==
  /\ ChainShape
  /\ \A m \in Moves : picking_id[m] <= 2
  /\ state = [m \in Moves |-> "draft"]
  /\ scrapped = [m \in Moves |-> FALSE]
  /\ propagate_cancel = [m \in Moves |-> TRUE]
  /\ procure_method = [m \in Moves |->
       IF \E o \in Moves : <<o, m>> \in links THEN "make_to_order" ELSE "make_to_stock"]
  /\ Reservation
  /\ delivery_steps \in [Warehouses -> DeliverySteps]
  /\ reception_steps \in [Warehouses -> ReceptionSteps]
  /\ type_code = [t \in Types |-> DefaultCode(t)]
  /\ \E pk \in [Pickings -> Kinds] :
       /\ \A p \in Pickings \ UsedPickings : pk[p] = "OUT"
       /\ \A p \in UsedPickings : KindType(1, pk[p]) \in ActiveTypes(1)
       /\ picking_type_id = [p \in Pickings |-> KindType(1, pk[p])]
       /\ location_id = [p \in Pickings |-> KindSource(1, pk[p])]
       /\ location_dest_id = [p \in Pickings |-> KindDest(1, pk[p])]
       /\ move_wh = [m \in Moves |->
            [picking_type_id |-> KindType(1, pk[picking_id[m]]),
             warehouse_id |-> 1,
             location_id |-> KindSource(1, pk[picking_id[m]]),
             location_dest_id |-> KindDest(1, pk[picking_id[m]])]]
  /\ wizard = NoWizard
  /\ last = NoCall

SpecSteps == InitSteps /\ [][NextWh]_vars
\* One draft picking of either warehouse, of any kind the configuration of its
\* warehouse has. The types of that warehouse have the categories the host gives
\* them; in the other warehouse the category of each type is any of the three
\* (sequence_code and code are separate fields of a type, both editable).
InitTypes ==
  /\ picking_id = [m \in Moves |-> 1]
  /\ links = {}
  /\ state = [m \in Moves |-> "draft"]
  /\ scrapped = [m \in Moves |-> FALSE]
  /\ propagate_cancel = [m \in Moves |-> TRUE]
  /\ procure_method = [m \in Moves |-> "make_to_stock"]
  /\ Reservation
  /\ delivery_steps \in [Warehouses -> DeliverySteps]
  /\ reception_steps \in [Warehouses -> ReceptionSteps]
  /\ \A w \in Warehouses :
       /\ delivery_steps[w] = "ship_only" <=> reception_steps[w] = "one_step"
       /\ delivery_steps[w] = "pick_pack_ship" <=> reception_steps[w] = "three_steps"
  /\ type_code \in [Types -> Codes]
  /\ \E w \in Warehouses, k \in Kinds :
       /\ \A t \in Types : type_warehouse_id(t) = w => type_code[t] = DefaultCode(t)
       /\ KindType(w, k) \in ActiveTypes(w)
       /\ picking_type_id = [p \in Pickings |-> KindType(w, k)]
       /\ location_id = [p \in Pickings |-> KindSource(w, k)]
       /\ location_dest_id = [p \in Pickings |-> KindDest(w, k)]
       /\ move_wh = [m \in Moves |->
            [picking_type_id |-> KindType(w, k), warehouse_id |-> w,
             location_id |-> KindSource(w, k), location_dest_id |-> KindDest(w, k)]]
  /\ wizard = NoWizard
  /\ last = NoCall

SpecTypes == InitTypes /\ [][NextWh]_vars
\* ------------------------------------------------ the move-level operations
\* moves.with_context(preserve_move_chain=True)._action_cancel() on a recordset
\* of moves; last.seeds holds the recordset the call was made on.
ActionCancel ==
  /\ last = NoCall /\ ~wizard.open
  /\ \E self \in (SUBSET Moves) \ {{}} :
       LET r == _action_cancel(self, Db)
       IN /\ Store(r.db)
          /\ last' = [op |-> "_action_cancel", seeds |-> self, has_group |-> TRUE,
                      result |-> IF r.raised THEN "UserError" ELSE "ok"]
  /\ UNCHANGED <<chainVars, whVars, configVars, wizard>>

\* moves.action_back_to_draft() on a recordset of moves.
BackToDraft ==
  /\ last = NoCall /\ ~wizard.open
  /\ \E self \in (SUBSET Moves) \ {{}} :
       LET r == action_back_to_draft(self, Db)
       IN /\ Store(r.db)
          /\ last' = [op |-> "action_back_to_draft", seeds |-> self, has_group |-> TRUE,
                      result |-> IF r.raised THEN "UserError" ELSE "ok"]
  /\ UNCHANGED <<chainVars, whVars, configVars, wizard>>

NextMoves == ActionCancel \/ BackToDraft \/ CancelBackToDraft \/ Return

SpecMoves == Init /\ [][NextMoves]_vars

\* moves._action_cancel() on a recordset of moves, in a context with or without
\* preserve_move_chain.
ActionCancelInContext ==
  /\ last = NoCall /\ ~wizard.open
  /\ \E self \in (SUBSET Moves) \ {{}}, preserve_move_chain \in BOOLEAN :
       LET r == _action_cancel_in_context(self, preserve_move_chain, Db)
       IN /\ Store(r.db)
          /\ last' = [op |-> IF preserve_move_chain THEN "_action_cancel"
                             ELSE "super._action_cancel",
                      seeds |-> self, has_group |-> TRUE,
                      result |-> IF r.raised THEN "UserError" ELSE "ok"]
  /\ UNCHANGED <<chainVars, whVars, configVars, wizard>>

NextContext == ActionCancelInContext \/ BackToDraft \/ Return

SpecContext == Init /\ [][NextContext]_vars
\* ------------------------------------------------------ chain discovery
\* The downstream loop expanding every destination picking it meets, the
\* known ones included (dest_moves = dest_pickings.mapped("move_ids.move_dest_ids")).
RECURSIVE DownstreamIterations_ReExpand(_, _, _)
DownstreamIterations_ReExpand(db, all_pickings, dest_moves) ==
  IF dest_moves = {} THEN <<>>
  ELSE LET dest_pickings == {picking_id[m] : m \in dest_moves}
           new_pickings == dest_pickings \ all_pickings
       IN IF new_pickings # {}
          THEN <<[known |-> all_pickings, expanded |-> dest_pickings]>>
               \o DownstreamIterations_ReExpand(db, all_pickings \cup new_pickings,
                    UNION {move_dest_ids(db, m) : m \in move_ids(dest_pickings)})
          ELSE <<[known |-> all_pickings, expanded |-> {}]>>

\* The iterations of the downstream loop: the known set at the start of each
\* iteration and the pickings the iteration expands.
RECURSIVE DownstreamIterations(_, _, _)
DownstreamIterations(db, all_pickings, dest_moves) ==
  IF dest_moves = {} THEN <<>>
  ELSE LET dest_pickings == {picking_id[m] : m \in dest_moves}
           new_pickings == dest_pickings \ all_pickings
       IN IF new_pickings # {}
          THEN <<[known |-> all_pickings, expanded |-> new_pickings]>>
               \o DownstreamIterations(db, all_pickings \cup new_pickings,
                    UNION {move_dest_ids(db, m) : m \in move_ids(new_pickings)})
          ELSE <<[known |-> all_pickings, expanded |-> {}]>>

\* The iterations of the upstream loop.
RECURSIVE UpstreamIterations(_, _, _)
UpstreamIterations(db, all_pickings, orig_moves) ==
  IF orig_moves = {} THEN <<>>
  ELSE LET orig_pickings == {picking_id[m] : m \in orig_moves}
           new_pickings == orig_pickings \ all_pickings
       IN IF new_pickings # {}
          THEN <<[known |-> all_pickings, expanded |-> new_pickings]>>
               \o UpstreamIterations(db, all_pickings \cup new_pickings,
                    UNION {move_orig_ids(db, m) : m \in move_ids(new_pickings)})
          ELSE <<[known |-> all_pickings, expanded |-> {}]>>

\* Link graphs of any shape between moves of different pickings, cycles
\* included (the link table accepts any pair of moves); every move is draft.
AnyLinks == {<<a, b>> \in Moves \X Moves : a # b}
InitChain ==
  /\ picking_id \in [Moves -> Pickings]
  /\ \A m \in Moves : picking_id[m] <= 1 + Cardinality({picking_id[k] : k \in 1..(m-1)})
  /\ links \in SUBSET AnyLinks
  /\ \A l \in links : picking_id[l[1]] # picking_id[l[2]]
  /\ state = [m \in Moves |-> "draft"]
  /\ scrapped = [m \in Moves |-> FALSE]
  /\ propagate_cancel = [m \in Moves |-> TRUE]
  /\ procure_method = [m \in Moves |->
       IF \E o \in Moves : <<o, m>> \in links THEN "make_to_order" ELSE "make_to_stock"]
  /\ Reservation
  /\ DeliveryOnly
  /\ wizard = NoWizard
  /\ last = NoCall

SpecChain == InitChain /\ [][NextWh]_vars

\* Every operation of the addon, in any order, over the link graphs of InitChain.
NextCore ==
  \/ ActionCancel \/ BackToDraft \/ CancelBackToDraft
  \/ CreateWizard \/ ChangeWarehouse \/ Return

SpecCore == InitChain /\ [][NextCore]_vars

\* The entry points that write, called by users with and without the group.
NextAccess ==
  \/ CancelBackToDraft \/ OpenChangeWarehouseWizard
  \/ CreateWizard \/ ChangeWarehouseAsAnyUser \/ Return

SpecAccess == InitChain /\ [][NextAccess]_vars

\* Three moves, each in a picking of its own, in any state and linked in any
\* acyclic way: the state machine of the moves under every operation.
InitStates ==
  /\ picking_id = [m \in Moves |-> m]
  /\ links \in SUBSET AllLinks
  /\ state \in [Moves -> MoveStates]
  /\ \A m \in Moves : state[m] = "waiting" => \E o \in Moves : <<o, m>> \in links
  /\ scrapped \in [Moves -> BOOLEAN]
  /\ \A m \in Moves : scrapped[m] =>
        state[m] = "done" /\ \A l \in links : m # l[1] /\ m # l[2]
  /\ propagate_cancel = [m \in Moves |-> TRUE]
  /\ procure_method = [m \in Moves |->
       IF \E o \in Moves : <<o, m>> \in links THEN "make_to_order" ELSE "make_to_stock"]
  /\ Reservation
  /\ DeliveryOnly
  /\ wizard = NoWizard
  /\ last = NoCall

SpecStates == InitStates /\ [][NextCore]_vars
\* ================================================================ claims
\* The working set of the open wizard.
WorkingSet ==
  IF wizard.include_chained_pickings
  THEN chained_picking_ids(Db, wizard) ELSE wizard.picking_ids
SeedMoves == move_ids(last.seeds)
HasDoneMove(P) == \E m \in move_ids(P) : state[m] = "done" /\ ~scrapped[m]

\* C1: execute (action_change_warehouse) succeeds on a working set whose
\* pickings are in any non-done state, waiting/confirmed/assigned included: with
\* a valid target and an equivalent operation type for every picking it does
\* not raise and every picking of the working set ends remapped.
C1_ExecuteSucceedsOnAnyNonDoneState ==
  ( /\ last.op = "change_warehouse"
    /\ wizard.new_warehouse_id # NoWarehouse
    /\ wizard.new_warehouse_id # wizard.current_warehouse_id
    /\ \A m \in move_ids(WorkingSet) : state[m] # "done"
    /\ \A p \in WorkingSet :
         _get_equivalent_picking_type(picking_type_id[p], wizard.new_warehouse_id) # NoType )
  => /\ last.result = "ok"
     /\ \A p \in WorkingSet :
          type_warehouse_id(picking_type_id[p]) = wizard.new_warehouse_id

\* C2: after a successful execute every picking of the working set has been
\* re-confirmed: its state is waiting, confirmed or assigned, never draft or cancel.
C2_ExecuteEndsConfirmed ==
  (last.op = "change_warehouse" /\ last.result = "ok")
  => \A p \in WorkingSet : PickingState(Db, p) \in LiveStates
\* ---- action_cancel_back_to_draft
CbdStep == last'.op = "cancel_back_to_draft"
CbdOk == CbdStep /\ last'.result = "ok"
RECURSIVE Successors(_, _)
\* The moves reachable from S by successor links (S included).
Successors(db, S) ==
  LET T == S \cup UNION {move_dest_ids(db, m) : m \in S}
  IN IF T = S THEN S ELSE Successors(db, T)
\* The downstream moves of the seeds of the call made in this step.
Downstream == Successors(Db, move_ids(last'.seeds)) \ move_ids(last'.seeds)

\* C3 (as stated): action_cancel_back_to_draft preserves the chain: when it
\* returns, every predecessor and successor set is as before the call, and every
\* downstream move that has a predecessor has procure_method make_to_order.
C3_ChainAndProcureMethodKept ==
  [][CbdOk =>
       /\ links' = links
       /\ \A d \in Downstream :
            move_orig_ids(Db, d) # {} => procure_method'[d] = "make_to_order"]_vars

\* C3 (amended): when action_cancel_back_to_draft returns, every predecessor
\* and successor set is as before the call, a move's procure_method changes only
\* to make_to_order and only for a move with a predecessor that the call left
\* in draft, and every downstream move with a predecessor whose state the call
\* changed to draft has make_to_order.
C3_ChainKeptProcureNeverReset ==
  [][CbdOk =>
       /\ links' = links
       /\ \A m \in Moves :
            procure_method'[m] # procure_method[m] =>
              /\ procure_method'[m] = "make_to_order"
              /\ state'[m] = "draft"
              /\ move_orig_ids(Db, m) # {}
       /\ \A d \in Downstream :
            (state'[d] = "draft" /\ state[d] # "draft" /\ move_orig_ids(Db, d) # {})
              => procure_method'[d] = "make_to_order"]_vars

\* C3 witness: the call returned for an upstream picking whose move and its
\* successor in another picking are both restored to draft, link kept.
C3_Witness ==
  /\ last.op = "cancel_back_to_draft" /\ last.result = "ok"
  /\ \E l \in links :
       /\ picking_id[l[1]] \in last.seeds /\ picking_id[l[2]] \notin last.seeds
       /\ state[l[1]] = "draft" /\ state[l[2]] = "draft"
       /\ ~move_line_ids[l[2]]
       /\ procure_method[l[2]] = "make_to_order"

\* C4: for seed pickings none of which contains a done move, in any mix of
\* states and whether or not the seeds are linked to one another, an authorised
\* action_cancel_back_to_draft completes without error and leaves every move
\* of every seed picking in draft.
C4_SeedsEndInDraft ==
  ( /\ last.op = "cancel_back_to_draft" /\ last.has_group
    /\ \A m \in SeedMoves : state[m] # "done" )
  => /\ last.result = "ok"
     /\ \A m \in SeedMoves : state[m] = "draft"

\* C5: when action_cancel_back_to_draft returns, no move is in cancel that was
\* not in cancel before the call: every move it cancelled, directly or through
\* the propagate_cancel cascade at any depth, is back in draft.
C5_NoMoveLeftCancelled ==
  [][CbdOk => \A m \in Moves : state'[m] = "cancel" => state[m] = "cancel"]_vars

\* C6: if a seed picking contains a done, non-scrapped move,
\* action_cancel_back_to_draft raises and changes no state, reservation, link
\* or procure_method of any move.
C6_DoneSeedRaisesUnchanged ==
  [][(CbdStep /\ \E m \in move_ids(last'.seeds) : state[m] = "done" /\ ~scrapped[m])
       => /\ last'.result # "ok"
          /\ UNCHANGED moveVars]_vars

\* C6 witness: the call raised a UserError on seeds holding a done move next
\* to a reserved, cancellable one.
C6_Witness ==
  /\ last.op = "cancel_back_to_draft" /\ last.result = "UserError"
  /\ \E m \in SeedMoves : state[m] = "done" /\ ~scrapped[m]
  /\ \E m \in SeedMoves : state[m] = "assigned" /\ move_line_ids[m] /\ picked[m]

\* C7: action_open_change_warehouse_wizard, called with the role, raises a
\* UserError for every seed set in which some picking contains a done,
\* non-scrapped move.
C7_OpenWizardRaisesOnDoneMove ==
  ( /\ last.op = "open_change_warehouse_wizard" /\ last.has_group
    /\ HasDoneMove(last.seeds) )
  => last.result = "UserError"

\* C8: for a caller without the role, action_cancel_back_to_draft and
\* action_open_change_warehouse_wizard raise the access error, whatever the
\* seeds (a done seed picking included), and change nothing.
C8_AccessErrorFirst ==
  [][(last'.op \in {"cancel_back_to_draft", "open_change_warehouse_wizard"}
        /\ ~last'.has_group)
       => /\ last'.result = "AccessError"
          /\ UNCHANGED <<moveVars, chainVars, whVars>>]_vars

\* C8 witness: the wizard was refused with the access error on a done picking.
C8_Witness ==
  /\ last.op = "open_change_warehouse_wizard" /\ ~last.has_group
  /\ last.result = "AccessError"
  /\ \E p \in last.seeds : PickingState(Db, p) = "done"
\* ---- action_change_warehouse
ExecuteStep == last'.op = "change_warehouse"

\* C9: if the target warehouse is the warehouse of a seed picking (the
\* warehouse of its operation type), execute raises a UserError and writes
\* nothing, for seeds of one warehouse and for seeds spanning several.
C9_TargetOfASeedRejected ==
  [][(ExecuteStep /\ \E p \in wizard.picking_ids :
                        type_warehouse_id(picking_type_id[p]) = wizard.new_warehouse_id)
       => /\ last'.result = "UserError"
          /\ UNCHANGED <<whVars, moveVars>>]_vars

\* The three validations of execute, on the state before the call.
ValidationFails ==
  \/ wizard.new_warehouse_id = NoWarehouse
  \/ wizard.new_warehouse_id = wizard.current_warehouse_id
  \/ \E p \in WorkingSet : PickingState(Db, p) \notin {"draft", "cancel"}

\* C10: every validation failure of execute (no target warehouse, target equal
\* to the current warehouse, a picking of the optionally chain-expanded working
\* set in a state other than draft or cancel, done included) is raised before
\* the first write: no picking and no move is changed.
C10_ValidationBeforeWrites ==
  [][(ExecuteStep /\ ValidationFails)
       => /\ last'.result = "UserError"
          /\ UNCHANGED <<whVars, moveVars, chainVars>>]_vars

\* C10 witness: execute raised on a chain-expanded working set whose first
\* picking is valid (draft) and whose later, chained picking is done.
C10_Witness ==
  /\ last.op = "change_warehouse" /\ last.result = "UserError"
  /\ wizard.new_warehouse_id \notin {NoWarehouse, wizard.current_warehouse_id}
  /\ wizard.include_chained_pickings
  /\ \E p \in wizard.picking_ids, q \in WorkingSet \ wizard.picking_ids :
       /\ p < q
       /\ PickingState(Db, p) = "draft"
       /\ PickingState(Db, q) = "done"
       /\ _get_equivalent_picking_type(picking_type_id[p], wizard.new_warehouse_id) # NoType
\* ---- _get_all_chained_pickings
RECURSIVE ChainClosure(_, _)
\* The pickings connected to P by move links followed in either direction.
ChainClosure(db, P) ==
  LET near == UNION {move_dest_ids(db, m) \cup move_orig_ids(db, m) : m \in move_ids(P)}
      T == P \cup {picking_id[m] : m \in near}
  IN IF T = P THEN P ELSE ChainClosure(db, T)

\* C11: for every seed set and every link graph, _get_all_chained_pickings
\* returns exactly the pickings connected to a seed by a path of move links
\* followed in either direction.
C11_ChainedPickingsAreTheClosure ==
  wizard.open =>
    _get_all_chained_pickings(Db, wizard.picking_ids) = ChainClosure(Db, wizard.picking_ids)

\* The iterations of the two loops of _get_all_chained_pickings on the seeds
\* of the open wizard.
DownIts ==
  DownstreamIterations(Db, wizard.picking_ids,
    UNION {move_dest_ids(Db, m) : m \in move_ids(wizard.picking_ids)})
UpIts ==
  UpstreamIterations(Db,
    DownstreamWalk(Db, wizard.picking_ids,
      UNION {move_dest_ids(Db, m) : m \in move_ids(wizard.picking_ids)}),
    UNION {move_orig_ids(Db, m) : m \in move_ids(wizard.picking_ids)})
\* Every iteration of a loop expands only pickings outside the known set, the
\* known set grows by exactly them, and an iteration that finds none is the last.
LoopConverges(its) ==
  /\ Len(its) <= Cardinality(Pickings)
  /\ \A i \in 1..Len(its) :
       /\ its[i].expanded \cap its[i].known = {}
       /\ its[i].expanded = {} => i = Len(its)
       /\ i < Len(its) => /\ its[i+1].known = its[i].known \cup its[i].expanded
                          /\ Cardinality(its[i+1].known) > Cardinality(its[i].known)

\* C12: _get_all_chained_pickings terminates on every finite link graph, cyclic
\* ones included: each loop iteration adds at least one picking not yet known or
\* stops, a known picking is never expanded again, and the loops end with the
\* returned set.
C12_WalkConverges ==
  wizard.open =>
    /\ LoopConverges(DownIts)
    /\ LoopConverges(UpIts)
    /\ \A i \in 1..Len(DownIts), j \in 1..Len(UpIts) :
         DownIts[i].expanded \cap UpIts[j].expanded = {}
    /\ LET its == DownIts \o UpIts
       IN its # <<>> =>
            its[Len(its)].known \cup its[Len(its)].expanded
              = _get_all_chained_pickings(Db, wizard.picking_ids)

\* C12 witness: the walk ran on a cyclic link graph (two moves linked in both
\* directions) and took two downstream iterations before it stopped.
C12_Witness ==
  /\ wizard.open
  /\ \E l \in links : <<l[2], l[1]>> \in links /\ picking_id[l[1]] \in wizard.picking_ids
  /\ Len(DownIts) >= 2
  /\ DownIts[Len(DownIts)].expanded = {}
\* ---- the remap
ExecuteOk == ExecuteStep /\ last'.result = "ok"

\* C13: a 2-step delivery chain (pick: stock to output, ship: output to
\* customer) remapped to a warehouse that is also 2-step delivery ends with the
\* target's pick type and (target stock, target output) on the pick, and the
\* target's out type and (target output, the same customer location) on the ship.
C13_TwoStepDeliveryRemapped ==
  [][ExecuteOk =>
       \A pick \in WorkingSet, ship \in WorkingSet :
         LET O == type_warehouse_id(picking_type_id[pick])
             W == wizard.new_warehouse_id
         IN ( /\ delivery_steps[O] = "pick_ship" /\ delivery_steps[W] = "pick_ship"
              /\ picking_type_id[pick] = <<O, "PICK">>
              /\ picking_type_id[ship] = <<O, "OUT">>
              /\ location_id[pick] = lot_stock_id(O)
              /\ location_dest_id[pick] = wh_output_stock_loc_id(O)
              /\ location_id[ship] = wh_output_stock_loc_id(O)
              /\ location_dest_id[ship] = CustomerLocation
              /\ \E l \in links : picking_id[l[1]] = pick /\ picking_id[l[2]] = ship )
            => /\ picking_type_id'[pick] = <<W, "PICK">>
               /\ location_id'[pick] = lot_stock_id(W)
               /\ location_dest_id'[pick] = wh_output_stock_loc_id(W)
               /\ picking_type_id'[ship] = <<W, "OUT">>
               /\ location_id'[ship] = wh_output_stock_loc_id(W)
               /\ location_dest_id'[ship] = location_dest_id[ship]]_vars

\* C13 witness: execute on the pick of a pick -> ship chain of warehouse 1,
\* chain included, left both pickings on the 2-step types of warehouse 2.
C13_Witness ==
  /\ last.op = "change_warehouse" /\ last.result = "ok"
  /\ wizard.include_chained_pickings /\ wizard.new_warehouse_id = 2
  /\ wizard.current_warehouse_id = 1
  /\ delivery_steps[2] = "pick_ship"
  /\ \E l \in links :
       /\ wizard.picking_ids = {picking_id[l[1]]}
       /\ picking_type_id[picking_id[l[1]]] = <<2, "PICK">>
       /\ location_id[picking_id[l[1]]] = lot_stock_id(2)
       /\ location_dest_id[picking_id[l[1]]] = wh_output_stock_loc_id(2)
       /\ picking_type_id[picking_id[l[2]]] = <<2, "OUT">>
       /\ location_id[picking_id[l[2]]] = wh_output_stock_loc_id(2)
       /\ location_dest_id[picking_id[l[2]]] = CustomerLocation

\* C14: a document whose resolved operation type is incoming, with a supplier
\* source and an internal destination, keeps its source and gets as destination
\* the input location of the target warehouse when its reception is 2-step or
\* 3-step, and the target's main stock location when it is 1-step.
C14_ReceiptDestinationByReceptionSteps ==
  [][ExecuteOk =>
       \A p \in WorkingSet :
         ( /\ code(picking_type_id'[p]) = "incoming"
           /\ usage(location_id[p]) = "supplier"
           /\ usage(location_dest_id[p]) = "internal" )
         => /\ location_id'[p] = location_id[p]
            /\ location_dest_id'[p] =
                 IF reception_steps[wizard.new_warehouse_id] \in {"two_steps", "three_steps"}
                 THEN wh_input_stock_loc_id(wizard.new_warehouse_id)
                 ELSE lot_stock_id(wizard.new_warehouse_id)]_vars

\* C14 witness: one execute remapped a receipt of the 2-step warehouse 1
\* (supplier to its input) to the 3-step warehouse 2: it now goes from the
\* supplier to the input location of warehouse 2.
C14_Witness ==
  /\ last.op = "change_warehouse" /\ last.result = "ok"
  /\ wizard.new_warehouse_id = 2 /\ wizard.current_warehouse_id = 1
  /\ reception_steps[1] = "two_steps" /\ reception_steps[2] = "three_steps"
  /\ \E p \in wizard.picking_ids :
       /\ picking_type_id[p] = <<2, "IN">>
       /\ location_id[p] = SupplierLocation
       /\ location_dest_id[p] = wh_input_stock_loc_id(2)

\* C15: a source location of usage supplier or customer and a destination
\* location of usage customer or supplier are left unchanged by the remap: on
\* the pickings of the working set and their moves, and for a document of any
\* operation type of the target warehouse holding such a location.
C15_ExternalLocationsKept ==
  [][ExecuteOk =>
       /\ \A p \in WorkingSet :
            /\ usage(location_id[p]) # "internal" =>
                 /\ location_id'[p] = location_id[p]
                 /\ \A m \in move_ids({p}) : move_wh'[m].location_id = location_id[p]
            /\ usage(location_dest_id[p]) # "internal" =>
                 /\ location_dest_id'[p] = location_dest_id[p]
                 /\ \A m \in move_ids({p}) : move_wh'[m].location_dest_id = location_dest_id[p]
       /\ \A p \in WorkingSet, t \in ActiveTypes(wizard.new_warehouse_id),
             loc \in {SupplierLocation, CustomerLocation} :
            /\ _get_new_source_location([Wh EXCEPT !.location_id[p] = loc], p, t,
                                        wizard.new_warehouse_id) = loc
            /\ _get_new_dest_location([Wh EXCEPT !.location_dest_id[p] = loc], p, t,
                                      wizard.new_warehouse_id) = loc]_vars

\* C15 witness: one execute remapped a receipt and a delivery to warehouse 2;
\* the supplier source and the customer destination are still in place.
C15_Witness ==
  /\ last.op = "change_warehouse" /\ last.result = "ok"
  /\ wizard.new_warehouse_id = 2
  /\ \E p \in WorkingSet, q \in WorkingSet :
       /\ picking_type_id[p] = <<2, "IN">> /\ location_id[p] = SupplierLocation
       /\ picking_type_id[q] = <<2, "OUT">> /\ location_dest_id[q] = CustomerLocation
       /\ \E m \in move_ids({p}) : move_wh[m].location_id = SupplierLocation
       /\ \E m \in move_ids({q}) : move_wh[m].location_dest_id = CustomerLocation

\* C16: after a successful execute, the operation type of every picking of the
\* working set belongs to the target warehouse, and every move of the picking
\* has the picking's operation type, source and destination and the target
\* warehouse.
C16_MovesFollowTheirPicking ==
  [][ExecuteOk =>
       \A p \in WorkingSet :
         /\ type_warehouse_id(picking_type_id'[p]) = wizard.new_warehouse_id
         /\ \A m \in move_ids({p}) :
              move_wh'[m] = [picking_type_id |-> picking_type_id'[p],
                             warehouse_id |-> wizard.new_warehouse_id,
                             location_id |-> location_id'[p],
                             location_dest_id |-> location_dest_id'[p]]]_vars

\* C16 witness: a picking holding two moves was remapped from warehouse 1 to
\* warehouse 2 and both moves carry warehouse 2.
C16_Witness ==
  /\ last.op = "change_warehouse" /\ last.result = "ok"
  /\ wizard.new_warehouse_id = 2 /\ wizard.current_warehouse_id = 1
  /\ \E p \in wizard.picking_ids :
       /\ Cardinality(move_ids({p})) >= 2
       /\ type_warehouse_id(picking_type_id[p]) = 2
       /\ \A m \in move_ids({p}) : move_wh[m].warehouse_id = 2
\* ---- the move operations
CancelStep == last'.op = "_action_cancel"
DraftStep == last'.op = "action_back_to_draft"
HasDoneMember(S) == \E m \in S : state[m] = "done" /\ ~scrapped[m]

\* C17: after any sequence of operations (preserve-chain cancel, back-to-draft,
\* action_cancel_back_to_draft, remap, whether they return or raise) the link
\* relation is symmetric (B is a successor of A iff A is a predecessor of B) and
\* no step adds or removes a link.
C17_LinksSymmetricAndKept ==
  [][/\ links' = links
     /\ \A a \in Moves, b \in Moves :
          b \in move_dest_ids(Db', a) <=> a \in move_orig_ids(Db', b)]_vars

\* C17 witness: a preserve-chain cancel cascaded from a move to its successor,
\* both are cancelled and still linked.
C17_Witness ==
  /\ last.op = "_action_cancel" /\ last.result = "ok"
  /\ \E l \in links :
       /\ l[1] \in last.seeds /\ l[2] \notin last.seeds
       /\ state[l[1]] = "cancel" /\ state[l[2]] = "cancel"
       /\ propagate_cancel[l[1]]

\* C18: action_back_to_draft on a set of moves raises if a move of the set is
\* not in cancel (an already-draft move included) and then changes no move; a
\* second restore right after a successful one is rejected and leaves the moves
\* in draft.
C18_BackToDraftOnlyFromCancel ==
  [][DraftStep =>
       /\ (\E m \in last'.seeds : state[m] # "cancel")
            => last'.result = "UserError" /\ UNCHANGED moveVars
       /\ last'.result = "ok"
            => /\ \A m \in last'.seeds : state'[m] = "draft"
               /\ action_back_to_draft(last'.seeds, Db').raised
               /\ action_back_to_draft(last'.seeds, Db').db = Db']_vars

\* C18 witness: a restore was rejected for a set holding a cancelled move next
\* to a draft one; the cancelled move is still in cancel.
C18_Witness ==
  /\ last.op = "action_back_to_draft" /\ last.result = "UserError"
  /\ \E m \in last.seeds : state[m] = "cancel"
  /\ \E m \in last.seeds : state[m] = "draft"

\* C19: preserve-chain cancel of a set of moves with no done, non-scrapped
\* member puts every non-cancel, non-done move of the set in cancel with its move
\* lines dropped and picked false, and leaves the links and the procure_method
\* of every move, targeted or cascaded, unchanged.
C19_CancelKeepsChain ==
  [][(CancelStep /\ ~HasDoneMember(last'.seeds)) =>
       /\ last'.result = "ok"
       /\ \A m \in last'.seeds :
            state[m] \notin {"cancel", "done"} =>
              state'[m] = "cancel" /\ ~move_line_ids'[m] /\ ~picked'[m]
       /\ links' = links
       /\ procure_method' = procure_method]_vars

\* C19 witness: a reserved make_to_order move with a predecessor was cancelled
\* by the cascade from that predecessor; it kept its link and make_to_order.
C19_Witness ==
  /\ last.op = "_action_cancel" /\ last.result = "ok"
  /\ \E l \in links :
       /\ l[1] \in last.seeds /\ l[2] \notin last.seeds
       /\ state[l[1]] = "cancel" /\ state[l[2]] = "cancel"
       /\ procure_method[l[2]] = "make_to_order"
       /\ ~move_line_ids[l[2]] /\ ~picked[l[2]]

\* C20: preserve-chain cancel of a set of moves raises if a move of the set is
\* done and not scrapped, and then no move (a cancellable member of the set, a
\* successor) changes state, reservation, links or procure_method.
C20_CancelRaisesOnDoneUnchanged ==
  [][(CancelStep /\ HasDoneMember(last'.seeds)) =>
       /\ last'.result = "UserError"
       /\ UNCHANGED moveVars]_vars

\* C20 witness: a cancel was rejected for a set holding a done move and a
\* reserved one with a live successor; the reserved move kept its reservation.
C20_Witness ==
  /\ last.op = "_action_cancel" /\ last.result = "UserError"
  /\ \E m \in last.seeds : state[m] = "done" /\ ~scrapped[m]
  /\ \E m \in last.seeds :
       /\ state[m] = "assigned" /\ move_line_ids[m] /\ picked[m]
       /\ \E d \in move_dest_ids(Db, m) : state[d] \in LiveStates
\* ---- the cascade of the preserve-chain cancel
\* The moves the call of this step cancelled without their being in its recordset.
CascadeCancelled ==
  {m \in Moves \ last'.seeds : state[m] # "cancel" /\ state'[m] = "cancel"}

\* C21: in the preserve-chain cancel cascade, a successor with another
\* predecessor that is not in cancel is never cancelled: every move the cascade
\* cancelled has a cancelled predecessor with propagate_cancel, and all of its
\* predecessors are in cancel when the call returns.
C21_NoCascadeOverLivePredecessor ==
  [][CancelStep =>
       \A d \in CascadeCancelled :
         /\ \E o \in move_orig_ids(Db, d) : state'[o] = "cancel" /\ propagate_cancel[o]
         /\ \A o \in move_orig_ids(Db, d) : state'[o] = "cancel"]_vars

\* C21 witness: a move with two predecessors kept its state after the cancel
\* of one of them, which has propagate_cancel, because the other is live.
C21_Witness ==
  /\ last.op = "_action_cancel" /\ last.result = "ok"
  /\ \E a \in last.seeds, b \in Moves \ last.seeds, d \in Moves \ last.seeds :
       /\ a # b /\ <<a, d>> \in links /\ <<b, d>> \in links
       /\ propagate_cancel[a] /\ state[a] = "cancel"
       /\ state[b] \in LiveStates /\ state[d] \in LiveStates

\* C22: the cascade condition is evaluated per successor: when a cancelled move
\* has propagate_cancel, each of its non-done successors whose other
\* predecessors are all in cancel (those cancelled in the same batch included)
\* is cancelled, also when another successor of the move has a live alternate
\* predecessor.
C22_CascadePerSuccessor ==
  [][(CancelStep /\ last'.result = "ok") =>
       \A m \in last'.seeds, d \in Moves :
         ( /\ state[m] \notin {"cancel", "done"} /\ propagate_cancel[m]
           /\ <<m, d>> \in links /\ state[d] # "done"
           /\ \A o \in move_orig_ids(Db, d) \ {m} :
                state[o] = "cancel" \/ (o \in last'.seeds /\ state[o] # "done") )
         => state'[d] = "cancel"]_vars
\* ---- the working set
\* The set the claim expects: the seeds, or the chain discovery over the seeds.
ExpectedSet ==
  IF wizard.include_chained_pickings
  THEN _get_all_chained_pickings(Db, wizard.picking_ids)
  ELSE wizard.picking_ids
Previewed ==
  /\ chained_picking_ids(Db, wizard) = ExpectedSet
  /\ picking_count(Db, wizard) = Cardinality(ExpectedSet)
  /\ wizard.picking_ids \subseteq ExpectedSet

\* C23: with include_chained_pickings false the previewed set and the working
\* set of execute are exactly the seeds; with it true they are the result of the
\* chain discovery over the seeds, which contains every seed; picking_count is
\* the size of the set; execute writes the pickings of that set and no other.
C23_WorkingSetBySwitch ==
  [][wizard'.open =>
       /\ Previewed'
       /\ ExecuteOk =>
            \A p \in Pickings :
              IF p \in ExpectedSet
              THEN type_warehouse_id(picking_type_id'[p]) = wizard.new_warehouse_id
              ELSE /\ picking_type_id'[p] = picking_type_id[p]
                   /\ location_id'[p] = location_id[p]
                   /\ location_dest_id'[p] = location_dest_id[p]
                   /\ \A m \in move_ids({p}) : move_wh'[m] = move_wh[m]]_vars

\* C23 witness: execute without the chain remapped the seed picking to
\* warehouse 2 and left the picking chained to it in warehouse 1, while the
\* discovery over the same seed finds both.
C23_Witness ==
  /\ last.op = "change_warehouse" /\ last.result = "ok"
  /\ ~wizard.include_chained_pickings /\ wizard.new_warehouse_id = 2
  /\ picking_count(Db, wizard) = 1
  /\ \E l \in links :
       /\ wizard.picking_ids = {picking_id[l[1]]}
       /\ picking_id[l[2]] \in _get_all_chained_pickings(Db, wizard.picking_ids)
       /\ type_warehouse_id(picking_type_id[picking_id[l[1]]]) = 2
       /\ type_warehouse_id(picking_type_id[picking_id[l[2]]]) = 1
\* ---- the state machine of a move
\* One operation of the move level: to cancel from a state that is neither done
\* nor cancel, or from cancel to draft.
MoveStep(m) ==
  \/ state'[m] = state[m]
  \/ state[m] \notin {"done", "cancel"} /\ state'[m] = "cancel" /\ CancelStep
  \/ state[m] = "cancel" /\ state'[m] = "draft" /\ DraftStep

\* C24: in every sequence of operations a move's state changes only from a
\* state that is neither done nor cancel to cancel (by a cancel) or from cancel
\* to draft (by a restore); action_cancel_back_to_draft, a cancel followed by a
\* restore, moves a state only along these two steps; a done move's state never
\* changes and the remap changes no state.
C24_MoveStateMachine ==
  [][\A m \in Moves :
       /\ state[m] = "done" => state'[m] = "done"
       /\ ExecuteStep => state'[m] = state[m]
       /\ CbdStep => (state'[m] = state[m] \/ state'[m] \in {"cancel", "draft"})
       /\ ~CbdStep => MoveStep(m)]_vars

\* C24 witness: after a remap and a cancel, a restore brought a move from
\* cancel to draft next to a done move.
C24_Witness ==
  /\ last.op = "action_back_to_draft" /\ last.result = "ok"
  /\ \E m \in last.seeds : state[m] = "draft"
  /\ \E m \in Moves : state[m] = "done" /\ ~scrapped[m]
  /\ \E p \in Pickings : type_warehouse_id(picking_type_id[p]) = 2
\* ---- procure_method on restore
\* C25: after a successful action_back_to_draft every restored move with a
\* predecessor has procure_method make_to_order, whatever the state of the
\* predecessor, and every restored move without one keeps the procure_method
\* it had, whichever of the two values that was.
C25_ProcureMethodOnRestore ==
  [][(DraftStep /\ last'.result = "ok") =>
       /\ \A m \in last'.seeds :
            procure_method'[m] =
              IF move_orig_ids(Db, m) # {} THEN "make_to_order" ELSE procure_method[m]
       /\ \A pm \in [Moves -> ProcureMethods] :
            LET r == action_back_to_draft(last'.seeds, [Db EXCEPT !.procure_method = pm])
            IN /\ ~r.raised
               /\ \A m \in Moves :
                    r.db.procure_method[m] =
                      IF m \in last'.seeds /\ move_orig_ids(Db, m) # {}
                      THEN "make_to_order" ELSE pm[m]]_vars

\* C25 witness: one restore brought back a make_to_stock move whose
\* predecessor is done, now make_to_order, and a move without predecessor.
C25_Witness ==
  /\ last.op = "action_back_to_draft" /\ last.result = "ok"
  /\ \E l \in links :
       /\ l[2] \in last.seeds /\ state[l[2]] = "draft" /\ state[l[1]] = "done"
       /\ procure_method[l[2]] = "make_to_order"
  /\ \E m \in last.seeds :
       move_orig_ids(Db, m) = {} /\ procure_method[m] = "make_to_stock"
\* ---- the resolution of the operation type and of the locations
Resolved(p) == _get_equivalent_picking_type(picking_type_id[p], wizard.new_warehouse_id)
PickingUnchanged(p) ==
  /\ picking_type_id'[p] = picking_type_id[p]
  /\ location_id'[p] = location_id[p]
  /\ location_dest_id'[p] = location_dest_id[p]
  /\ \A m \in move_ids({p}) : move_wh'[m] = move_wh[m]

\* C26: the operation type of the target is resolved by the sequence code of the
\* old type when the target has a type with that code, also when another type
\* of the target matches the category code; otherwise by the category code; when
\* neither exists _update_picking_warehouse raises a UserError and leaves the
\* picking and its moves unchanged.
C26_TypeResolution ==
  [][ExecuteStep =>
       /\ \A O \in Warehouses, n \in TypeNames, W \in Warehouses :
            LET r == _get_equivalent_picking_type(<<O, n>>, W)
                same_sequence_code == {t \in ActiveTypes(W) : sequence_code(t) = n}
                same_code == {t \in ActiveTypes(W) : code(t) = code(<<O, n>>)}
            IN IF same_sequence_code # {} THEN r \in same_sequence_code
               ELSE IF same_code # {} THEN r \in same_code
               ELSE r = NoType
       /\ \A p \in Pickings, W \in Warehouses :
            LET u == _update_picking_warehouse(Wh, p, W)
            IN /\ u.raised <=> _get_equivalent_picking_type(picking_type_id[p], W) = NoType
               /\ u.raised => u.wh = Wh
       /\ (~ValidationFails /\ \E p \in WorkingSet : Resolved(p) = NoType)
            => /\ last'.result = "UserError"
               /\ \A p \in WorkingSet : Resolved(p) = NoType => PickingUnchanged(p)
       /\ last'.result = "ok"
            => \A p \in WorkingSet : picking_type_id'[p] = Resolved(p)]_vars

\* C26 witness: a pack picking of the 3-step warehouse 2 was remapped to
\* warehouse 1, which has no pack type: it got the internal type found by the
\* category code.
C26_Witness ==
  /\ last.op = "change_warehouse" /\ last.result = "ok"
  /\ wizard.new_warehouse_id = 1 /\ wizard.current_warehouse_id = 2
  /\ delivery_steps[2] = "pick_pack_ship"
  /\ \E p \in wizard.picking_ids :
       /\ picking_type_id[p] = <<1, "INT">>
       /\ location_dest_id[p] = wh_output_stock_loc_id(1)

\* C27: a document whose resolved type is outgoing and whose source is not a
\* supplier or customer location gets as source the output location of the
\* target when its delivery is 2-step or 3-step and the target's main stock
\* location when it is 1-step; its destination is kept.
C27_DeliverySourceByDeliverySteps ==
  [][ExecuteOk =>
       \A p \in WorkingSet :
         ( /\ code(picking_type_id'[p]) = "outgoing"
           /\ usage(location_id[p]) = "internal" )
         => /\ location_id'[p] =
                 IF delivery_steps[wizard.new_warehouse_id] \in {"pick_ship", "pick_pack_ship"}
                 THEN wh_output_stock_loc_id(wizard.new_warehouse_id)
                 ELSE lot_stock_id(wizard.new_warehouse_id)
            /\ location_dest_id'[p] = location_dest_id[p]]_vars

\* C27 witness: a delivery of warehouse 1 was remapped to the 3-step
\* warehouse 2 and now leaves from the output location of warehouse 2.
C27_Witness ==
  /\ last.op = "change_warehouse" /\ last.result = "ok"
  /\ wizard.new_warehouse_id = 2 /\ wizard.current_warehouse_id = 1
  /\ delivery_steps[2] = "pick_pack_ship"
  /\ \E p \in wizard.picking_ids :
       /\ picking_type_id[p] = <<2, "OUT">>
       /\ location_id[p] = wh_output_stock_loc_id(2)
       /\ location_dest_id[p] = CustomerLocation

\* C28: for a document whose resolved type is internal, a source or destination
\* that is the main stock, input, output or pack location of the old warehouse
\* becomes the location of the same role in the target warehouse, on both sides.
C28_InternalRoleMapping ==
  [][ExecuteOk =>
       \A p \in WorkingSet :
         LET O == type_warehouse_id(picking_type_id[p])
             W == wizard.new_warehouse_id
         IN code(picking_type_id'[p]) = "internal" =>
              \A role \in {"stock", "input", "output", "pack"} :
                /\ location_id[p] = <<O, role>> => location_id'[p] = <<W, role>>
                /\ location_dest_id[p] = <<O, role>> => location_dest_id'[p] = <<W, role>>]_vars

\* The orders in which the pickings of S can be processed.
Orders(S) ==
  {o \in [1..Cardinality(S) -> S] : \A i, j \in 1..Cardinality(S) : o[i] = o[j] => i = j}

\* C29: the result of the remap does not depend on the order in which the
\* pickings of the working set are processed: in every order the operation type
\* and locations of every picking and move end the same.
C29_RemapOrderIndependent ==
  [][ExecuteOk =>
       \A order \in Orders(WorkingSet) :
         LET r == UpdateInOrder(Wh, order, wizard.new_warehouse_id)
         IN ~r.raised /\ r.wh = Wh']_vars

\* C29 witness: execute remapped two pickings of warehouse 1, a pick among
\* them, to the 3-step warehouse 2.
C29_Witness ==
  /\ last.op = "change_warehouse" /\ last.result = "ok"
  /\ wizard.new_warehouse_id = 2 /\ delivery_steps[2] = "pick_pack_ship"
  /\ Cardinality(WorkingSet) = 2
  /\ \E p \in WorkingSet :
       /\ picking_type_id[p] = <<2, "PICK">>
       /\ location_id[p] = lot_stock_id(2)
       /\ location_dest_id[p] = wh_output_stock_loc_id(2)
  /\ \A p \in WorkingSet : type_warehouse_id(picking_type_id[p]) = 2

\* The first picking of the working set, in processing order, with no
\* equivalent operation type in the target.
FirstFailing == Min({p \in WorkingSet : Resolved(p) = NoType})

\* C30: if the remap fails on a picking of the working set (no equivalent
\* operation type in the target), the error reaches the caller, the pickings
\* processed before it keep their new operation type and locations, the failing
\* picking and the later ones are unchanged, whatever the processing order.
C30_PartialRemapOnFailure ==
  [][(ExecuteStep /\ ~ValidationFails /\ \E p \in WorkingSet : Resolved(p) = NoType) =>
       /\ last'.result = "UserError"
       /\ \A p \in WorkingSet :
            IF p < FirstFailing
            THEN /\ picking_type_id'[p] = Resolved(p)
                 /\ \A m \in move_ids({p}) :
                      move_wh'[m] = [picking_type_id |-> picking_type_id'[p],
                                     warehouse_id |-> wizard.new_warehouse_id,
                                     location_id |-> location_id'[p],
                                     location_dest_id |-> location_dest_id'[p]]
            ELSE PickingUnchanged(p)
       /\ \A order \in Orders(WorkingSet) :
            LET r == UpdateInOrder(Wh, order, wizard.new_warehouse_id)
                k == Min({i \in 1..Len(order) : Resolved(order[i]) = NoType})
            IN /\ r.raised
               /\ \A i \in 1..Len(order) :
                    IF i < k
                    THEN r.wh.picking_type_id[order[i]] = Resolved(order[i])
                    ELSE /\ r.wh.picking_type_id[order[i]] = picking_type_id[order[i]]
                         /\ r.wh.location_id[order[i]] = location_id[order[i]]
                         /\ r.wh.location_dest_id[order[i]] = location_dest_id[order[i]]
                         /\ \A m \in move_ids({order[i]}) : r.wh.move_wh[m] = move_wh[m]]_vars

\* C30 witness: execute to the 1-step warehouse 2 raised on a pick, the second
\* picking of the working set, after it had remapped the first, a delivery.
C30_Witness ==
  /\ last.op = "change_warehouse" /\ last.result = "UserError"
  /\ wizard.new_warehouse_id = 2 /\ wizard.current_warehouse_id = 1
  /\ delivery_steps[2] = "ship_only"
  /\ \E p \in WorkingSet, q \in WorkingSet :
       /\ p < q
       /\ picking_type_id[p] = <<2, "OUT">> /\ location_id[p] = lot_stock_id(2)
       /\ picking_type_id[q] = <<1, "PICK">>
       /\ PickingState(Db, p) \in {"draft", "cancel"}
       /\ PickingState(Db, q) \in {"draft", "cancel"}
\* ---- the cancellation used by action_cancel_back_to_draft
\* C31 (as stated): action_cancel_back_to_draft cancels with the normal,
\* non-preserving cancellation and then drafts: when it returns, every seed
\* move it cancelled has no predecessor link left and has procure_method
\* make_to_stock.
C31_NormalCancelThenDraft ==
  [][CbdOk =>
       \A m \in move_ids(last'.seeds) :
         state[m] # "cancel" =>
           /\ move_orig_ids(Db', m) = {}
           /\ procure_method'[m] = "make_to_stock"]_vars

\* C31 (amended): action_cancel_back_to_draft cancels with the preserve-chain
\* cancellation and then drafts: when it returns, no link is severed, every
\* seed move is in draft, a seed move with a predecessor has make_to_order and a
\* seed move without one has the procure_method it had.
C31_PreservingCancelThenDraft ==
  [][CbdOk =>
       /\ links' = links
       /\ \A m \in move_ids(last'.seeds) :
            /\ state'[m] = "draft"
            /\ move_orig_ids(Db', m) = move_orig_ids(Db, m)
            /\ procure_method'[m] =
                 IF move_orig_ids(Db, m) # {} THEN "make_to_order"
                 ELSE procure_method[m]]_vars

\* C31 witness: the call returned for a picking whose move has a predecessor in
\* another picking; the move is in draft, still linked, and make_to_order.
C31_Witness ==
  /\ last.op = "cancel_back_to_draft" /\ last.result = "ok"
  /\ \E l \in links :
       /\ picking_id[l[2]] \in last.seeds /\ picking_id[l[1]] \notin last.seeds
       /\ state[l[2]] = "draft" /\ state[l[1]] \in LiveStates
       /\ procure_method[l[2]] = "make_to_order"
\* ---- _action_cancel without the context flag
SuperStep == last'.op = "super._action_cancel"

\* C32: without preserve_move_chain in the context, _action_cancel is the
\* host's cancellation and nothing else: it ends as the host's call ends, it
\* raises on a done, non-scrapped move and then changes nothing, and every move
\* it cancelled has no predecessor link left and has procure_method make_to_stock.
C32_WithoutFlagHostCancel ==
  [][SuperStep =>
       /\ Db' = super_action_cancel(last'.seeds, Db).db
       /\ (last'.result = "ok") = ~HasDoneMember(last'.seeds)
       /\ last'.result # "ok" => UNCHANGED moveVars
       /\ \A m \in Moves :
            (state[m] # "cancel" /\ state'[m] = "cancel") =>
              /\ move_orig_ids(Db', m) = {}
              /\ procure_method'[m] = "make_to_stock"]_vars

\* C32 witness: a cancel without the flag cancelled a move and, by the cascade,
\* a successor of it; the two are no longer linked and the successor, with no
\* predecessor left, is make_to_stock.
C32_Witness ==
  /\ last.op = "super._action_cancel" /\ last.result = "ok"
  /\ \E a \in last.seeds, d \in Moves \ last.seeds :
       /\ state[a] = "cancel" /\ state[d] = "cancel"
       /\ picking_id[a] # picking_id[d] /\ a < d
       /\ <<a, d>> \notin links /\ move_orig_ids(Db, d) = {}
       /\ procure_method[d] = "make_to_stock" /\ ~move_line_ids[d]
       /\ \E s \in Moves : <<d, s>> \in links
\* ---- termination of the cascade
\* The calls of the preserve-chain cancel made in this step.
Calls == CancelCalls(last'.seeds, Db).calls

\* C33: the preserve-chain cancel terminates on every link graph, cyclic ones
\* included: it makes at most one call per move it cancels besides the top-level
\* one, no move is in the moves_to_cancel of two calls, and the moves of the
\* calls are exactly the moves that were not in cancel before and are after.
C33_CascadeTerminates ==
  [][CancelStep =>
       /\ CancelCalls(last'.seeds, Db).db = Db'
       /\ \A i \in 1..Len(Calls), j \in 1..Len(Calls) :
            i # j => Calls[i] \cap Calls[j] = {}
       /\ UNION {Calls[i] : i \in 1..Len(Calls)}
            = {m \in Moves : state[m] # "cancel" /\ state'[m] = "cancel"}
       /\ Len(Calls) <= 1 + Cardinality(UNION {Calls[i] : i \in 1..Len(Calls)})]_vars

\* C33 witness: a cancel returned on a cycle of links: the move it was called on
\* and a successor that is also a predecessor of it are both in cancel.
C33_Witness ==
  /\ last.op = "_action_cancel" /\ last.result = "ok"
  /\ \E a \in last.seeds, b \in Moves \ last.seeds :
       /\ <<a, b>> \in links /\ <<b, a>> \in links
       /\ state[a] = "cancel" /\ state[b] = "cancel"
       /\ Cardinality(last.seeds) = 1
\* ---- the authorization of the entry points
\* C34: for a caller without the role, neither action_cancel_back_to_draft nor
\* the wizard's action_change_warehouse changes a field of a picking or a move.
C34_NoChangeWithoutRole ==
  [][(last'.op \in {"cancel_back_to_draft", "change_warehouse"} /\ ~last'.has_group)
       => UNCHANGED <<moveVars, whVars>>]_vars
\* ---- the order of the cancellations
RECURSIVE CancelInOrder(_, _)
\* The preserve-chain cancel called on the moves of a sequence, one at a time.
CancelInOrder(order, db) ==
  IF order = <<>> THEN db
  ELSE CancelInOrder(Tail(order), _action_cancel({Head(order)}, db).db)
CancelledIn(db) == {m \in Moves : db.state[m] = "cancel"}

\* C35: for a set of moves with propagate_cancel that the preserve-chain cancel
\* accepts, the call on the whole set and the calls on its moves one at a
\* time, in any order, end with the same moves in cancel.
C35_CancelOrderIndependent ==
  [][(/\ CancelStep /\ last'.result = "ok"
      /\ \A m \in last'.seeds : propagate_cancel[m])
       => \A order \in Orders(last'.seeds) :
            CancelledIn(CancelInOrder(order, Db)) = CancelledIn(Db')]_vars
\* ---- continuity of the locations along a chain
\* Every link between two pickings of P joins a destination to an equal source.
Continuous(wh, P) ==
  \A l \in links :
    (picking_id[l[1]] \in P /\ picking_id[l[2]] \in P)
      => wh.location_dest_id[picking_id[l[1]]] = wh.location_id[picking_id[l[2]]]

\* C36: when the remap succeeds over a whole chain whose links each join the
\* destination of the upstream picking to the equal source of the downstream
\* picking, the same holds after it, whatever the delivery and reception steps
\* of the old and the new warehouse.
C36_ChainContinuityKept ==
  [][(/\ ExecuteOk
      /\ ChainClosure(Db, WorkingSet) = WorkingSet
      /\ \E l \in links : picking_id[l[1]] \in WorkingSet
      /\ Continuous(Wh, WorkingSet))
       => Continuous(Wh', WorkingSet)]_vars
\* ---- the category of the resolved type
\* C37 (as stated): the operation type the remap gives a picking always has the
\* category code (incoming, outgoing, internal) of the type the picking had.
C37_CategoryKept ==
  [][ExecuteOk =>
       \A p \in WorkingSet :
         code(picking_type_id'[p]) = code(picking_type_id[p])]_vars

\* The active types of the target warehouse with the sequence code of type t.
SameSequenceCode(t) ==
  {u \in ActiveTypes(wizard.new_warehouse_id) : sequence_code(u) = sequence_code(t)}

\* C37 (amended): the type the remap gives a picking is the target's type with
\* the sequence code of the old type when there is one, whatever its category,
\* and otherwise a type of the old type's category; so the category is kept
\* whenever the target has no type with that sequence code and another category,
\* and it changes only to the category of the type with that sequence code.
C37_CategoryKeptUnlessSequenceCodeClash ==
  [][ExecuteOk =>
       \A p \in WorkingSet :
         LET old == picking_type_id[p]
             new == picking_type_id'[p]
         IN /\ type_warehouse_id(new) = wizard.new_warehouse_id
            /\ IF SameSequenceCode(old) # {} THEN new \in SameSequenceCode(old)
               ELSE code(new) = code(old)
            /\ (\A u \in SameSequenceCode(old) : code(u) = code(old))
                 => code(new) = code(old)]_vars

\* C37 witness: a remap gave picking 1 the internal-transfer type of the target,
\* which no picking starts with: the target has no type with the sequence code
\* of the old type and the type was found by the category, internal, although
\* the target's type with sequence code OUT is not an outgoing one.
C37_Witness ==
  /\ last.op = "change_warehouse" /\ last.result = "ok"
  /\ 1 \in last.seeds /\ wizard.current_warehouse_id = 1
  /\ picking_type_id[1] = <<2, "INT">> /\ code(<<2, "INT">>) = "internal"
  /\ code(<<2, "OUT">>) # "outgoing"
  /\ usage(location_id[1]) = "internal" /\ usage(location_dest_id[1]) = "internal"
\* ---- the reach of action_cancel_back_to_draft outside the seed pickings
\* C38: action_cancel_back_to_draft changes the state of a move outside the
\* seed pickings only if every predecessor of the move is in a seed picking or
\* in cancel: a non-seed move with a live predecessor outside the seeds that
\* stays live, and a non-seed move that no chain of links joins to a seed move,
\* keep their state.
C38_OnlyFullyCoveredSuccessorsReset ==
  [][CbdStep =>
       \A m \in Moves \ move_ids(last'.seeds) :
         /\ (\E o \in move_orig_ids(Db, m) :
               /\ picking_id[o] \notin last'.seeds
               /\ state[o] \in LiveStates /\ state'[o] \in LiveStates)
              => state'[m] = state[m]
         /\ m \notin Successors(Db, move_ids(last'.seeds))
              => state'[m] = state[m]]_vars
\* ---- the seed of the chain discovery
\* C39: chain discovery does not depend on the member of the chain it starts
\* from: for pickings P and Q, if Q is in _get_all_chained_pickings({P}) then
\* _get_all_chained_pickings({Q}) is the same set, and discovery applied to its
\* own result adds nothing.
C39_DiscoverySeedIndependent ==
  \A P \in UsedPickings :
    LET chain == _get_all_chained_pickings(Db, {P})
    IN /\ \A Q \in chain : _get_all_chained_pickings(Db, {Q}) = chain
       /\ _get_all_chained_pickings(Db, chain) = chain
====
